---------------------------- MODULE Spec2Model ----------------------------
(***************************************************************************)
(* A byte-level model of the zipstream archive writers.                    *)
(*                                                                         *)
(* Two writers are modelled over one sink:                                 *)
(*   "stream"  ZipArchive          (forward only, trailing data descriptor)*)
(*   "seek"    ZipArchiveNoStream  (header backpatched through a seek)     *)
(* and, for the example and the tests, the writer of archive.rs:           *)
(*   "archive" Archive             (append_file, append_file_no_extend)    *)
(* The sink is a sequence of bytes (0..255) with a write position; every   *)
(* header, descriptor and directory record is laid out field by field in   *)
(* little-endian order, exactly as the code writes it.  Each public call   *)
(* (append_file, finalize, set_archive_comment) is one action that models  *)
(* the whole call, including the early returns of the `?` operator when a  *)
(* sink or source operation fails.                                         *)
(***************************************************************************)
EXTENDS Integers, Sequences, FiniteSets, TLC

VARIABLES
    variant,              \* "stream", "seek" or "archive": the writer in use
    sink,                 \* the bytes held by the underlying sink
    pos,                  \* the sink's write position (0-based)
    written_bytes_count,  \* AsyncWriteWrapper.written_bytes_count ("stream")
    archive_size,         \* ZipArchiveNoStream.archive_size ("seek")
    files_info,           \* SubZipArchiveData.files_info
    archive_comment,      \* SubZipArchiveData.archive_comment
    sink_shutdown,        \* the underlying sink has completed a poll_shutdown
    last,                 \* the last call: its inputs, its result, where it began
    hist,                 \* counters of the calls made so far
    probe                 \* argument and result of a pure function under test

vars == <<variant, sink, pos, written_bytes_count, archive_size, files_info,
          archive_comment, sink_shutdown, last, hist, probe>>

---------------------------------------------------------------------------
(* Bounds of the model                                                     *)

MaxOps == 4
MaxFailures == 2
MaxProbe == 130
MaxPolls == 4
MaxPayload == 3

---------------------------------------------------------------------------
(* Program constants                                                       *)

FILE_HEADER_BASE_SIZE == 7 * 2 + 4 * 4
DESCRIPTOR_SIZE == 4 * 4
CENTRAL_DIRECTORY_ENTRY_BASE_SIZE == 11 * 2 + 6 * 4
END_OF_CENTRAL_DIRECTORY_SIZE == 5 * 2 + 3 * 4
FILE_HEADER_CRC_OFFSET == 14

CENTRAL_DIRECTORY_END_SIGNATURE == 101010256
CENTRAL_DIRECTORY_ENTRY_SIGNATURE == 33639248
LOCAL_FILE_HEADER_SIGNATURE == 67324752
DATA_DESCRIPTOR_SIGNATURE == 134695760

DEFAULT_VERSION == 46
UNIX == 3
VERSION_MADE_BY == UNIX * 256 + DEFAULT_VERSION

STORE == 0
DEFALTE == 8
BZIP2 == 12
LZMA == 14
ZSTD == 93
XZ == 95

U16_MOD == 2 ^ 16

---------------------------------------------------------------------------
(* Integer and byte helpers                                                *)

Min(a, b) == IF a < b THEN a ELSE b

Max(a, b) == IF a > b THEN a ELSE b

\* `x as u16`
AsU16(x) == x % U16_MOD

\* `x as u32`.  TLC's integers end at 2^31 - 1, so every size, count
\* and offset of the model is below 2^32 and the cast keeps its value; a
\* wrapped u32 difference a - b with a < b is kept as the negative number
\* a - b, which write_u32 lays out as the bytes of 2^32 + a - b.
AsU32(x) == x

\* ArchiveDescriptor::write_u16 / write_u32: little-endian
write_u16(v) == << v % 256, (v \div 256) % 256 >>

write_u32(v) ==
    << v % 256, (v \div 256) % 256, (v \div 65536) % 256, (v \div 16777216) % 256 >>

\* flags |= 1 << bit
SetBit(flags, bit) ==
    IF (flags \div (2 ^ bit)) % 2 = 1 THEN flags ELSE flags + 2 ^ bit

\* the first n bytes of b
Prefix(b, n) == SubSeq(b, 1, Min(n, Len(b)))

\* str::as_bytes: the UTF-8 encoding of a sequence of code points
Utf8Char(c) ==
    IF c < 128 THEN << c >>
    ELSE IF c < 2048 THEN << 192 + (c \div 64), 128 + (c % 64) >>
    ELSE << 224 + (c \div 4096), 128 + ((c \div 64) % 64), 128 + (c % 64) >>

RECURSIVE as_bytes(_)
as_bytes(name) ==
    IF name = << >> THEN << >>
    ELSE IF \A i \in DOMAIN name : name[i] < 128 THEN name
    ELSE Utf8Char(Head(name)) \o as_bytes(Tail(name))

\* str::len: the length of a &str is its length in bytes
str_len(name) == Len(as_bytes(name))

\* crc32fast::Hasher, abstracted to a 32-bit running checksum of the bytes
\* fed to it (0 for no byte, as CRC-32 is)
RECURSIVE HashFrom(_, _)
HashFrom(h, bytes) ==
    IF bytes = << >> THEN h
    ELSE HashFrom((h * 33 + Head(bytes) + 1) % 65521, Tail(bytes))

Crc32(bytes) == HashFrom(0, bytes)

---------------------------------------------------------------------------
(* The sink                                                                *)

\* a write of `bytes` at position p: it overwrites what lies under it, extends
\* the sink past its end, and zero-fills a gap between the end and p
Zeros(n) == [ i \in 1 .. n |-> 0 ]

WriteAt(s, p, bytes) ==
    IF p >= Len(s) THEN s \o Zeros(p - Len(s)) \o bytes
    ELSE SubSeq(s, 1, p) \o bytes \o SubSeq(s, p + Len(bytes) + 1, Len(s))

---------------------------------------------------------------------------
(* Compressor                                                              *)

\* enum Compressor: a unit variant is a record with its tag; Unknown(u16)
\* also carries the method code it was built with
Unit(tag) == [ tag |-> tag, code |-> 0 ]

Unknown(code) == [ tag |-> "Unknown", code |-> code ]

\* the method codes given to Unknown: one that no variant has, and two that
\* unit variants have too
UnknownCodes == { 99, STORE, BZIP2 }

Compressors ==
    { Unit(tag) : tag \in { "Store", "Deflate", "DeflateFate2", "BZip2", "Lzma",
                            "Zstd", "Xz" } }
    \cup { Unknown(code) : code \in UnknownCodes }

compression_method(c) ==
    CASE c.tag = "Store" -> STORE
      [] c.tag = "Deflate" -> DEFALTE
      [] c.tag = "DeflateFate2" -> DEFALTE
      [] c.tag = "BZip2" -> BZIP2
      [] c.tag = "Lzma" -> LZMA
      [] c.tag = "Zstd" -> ZSTD
      [] c.tag = "Xz" -> XZ
      [] c.tag = "Unknown" -> c.code

\* a version needed that is the same for every variant
version_needed_always_20(c) == 20

version_needed(c) == IF c.tag = "BZip2" THEN 46 ELSE 20

compression_method_label(c) ==
    CASE c.tag = "Store" -> "store"
      [] c.tag = "Deflate" -> "deflate"
      [] c.tag = "DeflateFate2" -> "deflate"
      [] c.tag = "BZip2" -> "bzip2"
      [] c.tag = "Lzma" -> "lzma"
      [] c.tag = "Zstd" -> "zstd"
      [] c.tag = "Xz" -> "xz"
      [] c.tag = "Unknown" -> "unknown"

is_unknown(c) == c.tag = "Unknown"

\* the bytes a codec hands to the sink for a payload: Store passes the bytes
\* through; the other codecs are external and are abstracted to a framing of
\* the payload (a two-byte stream header and a four-byte check trailer)
CodecOutput(c, payload) ==
    IF c.tag = "Store" THEN payload
    ELSE << 120, 100 + compression_method(c) >> \o payload
         \o write_u32(Crc32(payload) + 1)

\* the compression levels an entry's options can hold: Level::Default, which
\* FileOptions::default() sets, and one that is not the default
Levels == { "Default", "Best" }

\* the bytes a codec hands to the sink when it is built with a level: the
\* level shows in the stream header (as the level bits of a zlib header do)
CodecOutputAt(c, level, payload) ==
    IF c.tag = "Store" \/ level = "Default" THEN CodecOutput(c, payload)
    ELSE << 121 >> \o Tail(CodecOutput(c, payload))

---------------------------------------------------------------------------
(* Inputs of the calls                                                     *)

\* FileOptions.permissions: None, as FileOptions::default() leaves it
NoPermissions == [ some |-> FALSE, mode |-> 0 ]

\* FileOptions::unix_permissions: Some(mode & 0o777)
unix_permissions(mode) == [ some |-> TRUE, mode |-> mode % 512 ]

\* the files offered to append_file: name (a sequence of code points: "a",
\* U+00E9 "e-acute", which takes two bytes in UTF-8, and "bc"), compressor,
\* payload, permissions (the third file asks for 0o100755) and reads (the
\* byte counts that the source's read calls return before it returns 0)
Files ==
    { [ name |-> << 97 >>, compressor |-> Unit("Store"), payload |-> << 104, 105 >>,
        permissions |-> NoPermissions,
        compression_level |-> "Default", reads |-> << 1, 1 >> ],
      [ name |-> << 233 >>, compressor |-> Unit("Deflate"), payload |-> << 104, 105 >>,
        permissions |-> NoPermissions,
        compression_level |-> "Default", reads |-> << 2 >> ],
      [ name |-> << 98, 99 >>, compressor |-> Unit("BZip2"), payload |-> << >>,
        permissions |-> unix_permissions(33261),
        compression_level |-> "Default", reads |-> << >> ],
      [ name |-> << 97 >>, compressor |-> Unknown(99), payload |-> << 104, 105 >>,
        permissions |-> NoPermissions,
        compression_level |-> "Default", reads |-> << 2 >> ] }

Comments == { << >>, << 122 >> }

\* where a call fails: at |-> the failing sink or source operation, n |-> the
\* bytes that operation had written when it failed
NoFail == [ at |-> "none", n |-> 0 ]

StreamFails ==
    { [ at |-> a, n |-> k ] : a \in { "header", "compress", "descriptor" }, k \in { 3 } }

SeekFails ==
    { [ at |-> a, n |-> k ] : a \in { "header", "compress", "patch" }, k \in { 3 } }
    \cup { [ at |-> a, n |-> 0 ] :
              a \in { "position_begin", "position_end", "seek_back", "seek_fwd" } }

\* how compress turns down a method it does not write: Compressor::compress
\* panics; the compress of the writers under test returns the error
\* UnsuportedCompressionMethod
Rejections == { [ at |-> a, n |-> 0 ] : a \in { "panic", "unsupported" } }

\* the failures an append of file f can meet: a method that compress turns
\* down is turned down by every call that gets as far as compress
FailsOf(f, io_fails) ==
    IF is_unknown(f.compressor)
    THEN { x \in io_fails : x.at = "header" } \cup Rejections
    ELSE { NoFail } \cup io_fails

FinalizeFails == { [ at |-> "end", n |-> k ] : k \in { 3 } }

\* FileDateTime::ms_dos of the default time stamp (1980-01-01 00:00:00)
ms_dos == [ date |-> 33, time |-> 0 ]

---------------------------------------------------------------------------
(* The writer, as a record, and its sink operations                        *)

Writer ==
    [ variant |-> variant, sink |-> sink, pos |-> pos,
      written_bytes_count |-> written_bytes_count,
      archive_size |-> archive_size, files_info |-> files_info,
      archive_comment |-> archive_comment, sink_shutdown |-> sink_shutdown ]

\* a wrapper that forwards the write and forgets to count it
poll_write_uncounted(w, bytes) ==
    [ w EXCEPT !.sink = WriteAt(w.sink, w.pos, bytes),
               !.pos = w.pos + Len(bytes) ]

\* a sink whose position stays where it was after a write
poll_write_no_advance(w, bytes) ==
    [ w EXCEPT !.sink = WriteAt(w.sink, w.pos, bytes),
               !.written_bytes_count =
                   IF w.variant = "seek" THEN w.written_bytes_count
                   ELSE w.written_bytes_count + Len(bytes) ]

\* AsyncWriteWrapper::poll_write: the count grows by what the sink took
poll_write(w, bytes) ==
    [ w EXCEPT !.sink = WriteAt(w.sink, w.pos, bytes),
               !.pos = w.pos + Len(bytes),
               !.written_bytes_count =
                   IF w.variant = "seek" THEN w.written_bytes_count
                   ELSE w.written_bytes_count + Len(bytes) ]

\* write_all that completes
write_all(w, bytes) == poll_write(w, bytes)

\* what a poll of the wrapped sink returns: Poll::Pending, or Poll::Ready of
\* Ok(n) (Ok(()) for flush and shutdown, n |-> 0) or of Err(e)
Pending == [ poll |-> "Pending", ok |-> FALSE, n |-> 0, e |-> "none" ]

ReadyOk(n) == [ poll |-> "Ready", ok |-> TRUE, n |-> n, e |-> "none" ]

ReadyErr(e) == [ poll |-> "Ready", ok |-> FALSE, n |-> 0, e |-> e ]

\* the wrapped sink's poll_write of buf with result r: it has taken the n
\* bytes that it reports, and none when it reports an error or is pending
inner_poll_write(w, buf, r) ==
    IF r.poll = "Ready" /\ r.ok
    THEN [ w EXCEPT !.sink = WriteAt(w.sink, w.pos, Prefix(buf, r.n)),
                    !.pos = w.pos + r.n ]
    ELSE w

\* a wrapper that counts the buffer it was given, not what the sink took
wrapper_poll_write_counts_buf(w, buf, r) ==
    [ w |-> [ inner_poll_write(w, buf, r)
                EXCEPT !.written_bytes_count = w.written_bytes_count + Len(buf) ],
      res |-> r ]

\* AsyncWriteWrapper::poll_write, for any result r of the wrapped sink:
\* results.map(..) adds nb_byte_written on Ready(Ok), and hands r back
wrapper_poll_write(w, buf, r) ==
    [ w |-> IF r.poll = "Ready" /\ r.ok
            THEN [ inner_poll_write(w, buf, r)
                     EXCEPT !.written_bytes_count = w.written_bytes_count + r.n ]
            ELSE inner_poll_write(w, buf, r),
      res |-> r ]

\* the wrapped sink's poll_shutdown with result r: the sink is shut down when
\* it reports Ready(Ok(()))
inner_poll_shutdown(w, r) ==
    IF r.poll = "Ready" /\ r.ok THEN [ w EXCEPT !.sink_shutdown = TRUE ] ELSE w

\* AsyncWriteWrapper::poll_flush and poll_shutdown: the call is forwarded
wrapper_poll_flush(w, r) == [ w |-> w, res |-> r ]

wrapper_poll_shutdown(w, r) == [ w |-> inner_poll_shutdown(w, r), res |-> r ]

\* write_all that fails after n bytes went through
write_failed(w, bytes, n) == poll_write(w, Prefix(bytes, n))

\* AsyncSeekExt::seek(SeekFrom::Start(p))
seek(w, p) == [ w EXCEPT !.pos = p ]

\* the result of a call: the writer it leaves and whether it returned Ok
Ok(w) == [ w |-> w, ok |-> TRUE, error |-> "none" ]

\* an I/O error of the sink or of the source, handed up by `?`
Err(w) == [ w |-> w, ok |-> FALSE, error |-> "io" ]

\* compress turned the method down: a panic, or the error of its own kind
Rejected(w, how) == [ w |-> w, ok |-> FALSE, error |-> how ]

---------------------------------------------------------------------------
(* Local file header                                                       *)

\* the UTF-8 test of the code: the length of the name's bytes against the
\* length of the &str
utf8_flag(file_name, flags) ==
    IF Len(as_bytes(file_name)) > str_len(file_name) THEN SetBit(flags, 11)
    ELSE flags

ArchiveFileEntry(file_name, compressor, offset, flags) ==
    [ file_name_as_bytes |-> as_bytes(file_name),
      file_name_len |-> AsU16(Len(as_bytes(file_name))),
      compressed_size |-> 0,
      uncompressed_size |-> 0,
      crc32 |-> 0,
      offset |-> offset,
      last_mod_file_time |-> ms_dos.time,
      last_mod_file_date |-> ms_dos.date,
      compressor |-> compressor,
      general_purpose_flags |-> flags,
      extra_field_length |-> 0,
      version_needed |-> version_needed(compressor),
      compression_method |-> compression_method(compressor) ]

\* the header bytes: the three CRC/size fields are written as zero
file_header_bytes(file_name, compressor, flags) ==
    write_u32(LOCAL_FILE_HEADER_SIGNATURE)
    \o write_u16(version_needed(compressor))
    \o write_u16(flags)
    \o write_u16(compression_method(compressor))
    \o write_u16(ms_dos.time)
    \o write_u16(ms_dos.date)
    \o write_u32(0)
    \o write_u32(0)
    \o write_u32(0)
    \o write_u16(AsU16(Len(as_bytes(file_name))))
    \o write_u16(0)
    \o as_bytes(file_name)

\* a streaming header that does not announce its data descriptor
stream_flags_no_descriptor(file_name) == utf8_flag(file_name, 0)

\* ZipArchive::append_file, the part that builds the header: bit 3 is set
stream_flags(file_name) == utf8_flag(file_name, SetBit(0, 3))

\* a seekable header that announces a data descriptor
build_file_header_flags_with_descriptor(file_name) == utf8_flag(file_name, SetBit(0, 3))

\* build_file_header (ZipArchiveNoStream): bit 3 is clear
build_file_header_flags(file_name) == utf8_flag(file_name, 0)

build_file_header(file_name, compressor, offset) ==
    [ file_header |->
          file_header_bytes(file_name, compressor, build_file_header_flags(file_name)),
      archive_file_entry |->
          ArchiveFileEntry(file_name, compressor, offset,
                           build_file_header_flags(file_name)) ]

---------------------------------------------------------------------------
(* append_file                                                             *)

\* the loop of Compressor::compress.  `reads` is what the calls of
\* reader.read return, one after the other: n > 0 for Ok(n), which hands over
\* the next n bytes of the source, 0 for Ok(0), the end of the source;
\* ReadErr for Err; a source whose reads run out is at its end.  The bytes of
\* a read are counted, hashed and written: by Store to the sink, by the other
\* variants to their encoder, which holds them (`fed`).  The loop breaks at a
\* read of 0, and `?` leaves it at an error.
ReadErr == 0 - 1

\* a loop whose reads hand over the first bytes of the source again and again
RECURSIVE compress_loop_rereads(_, _, _, _)
compress_loop_rereads(c, source, reads, s) ==
    IF reads = << >> \/ Head(reads) = 0 THEN s
    ELSE IF Head(reads) = ReadErr THEN [ s EXCEPT !.failed = TRUE ]
    ELSE LET read == Head(reads)
             chunk == SubSeq(source, 1, read)
         IN  compress_loop_rereads(c, source, Tail(reads),
                 [ s EXCEPT !.w = IF c.tag = "Store" THEN write_all(s.w, chunk) ELSE s.w,
                            !.fed = s.fed \o chunk,
                            !.hasher = HashFrom(s.hasher, chunk),
                            !.total_read = s.total_read + read ])

\* a loop that goes on reading after a read of 0 bytes
RECURSIVE compress_loop_ignores_eof(_, _, _, _)
compress_loop_ignores_eof(c, source, reads, s) ==
    IF reads = << >> THEN s
    ELSE IF Head(reads) = ReadErr THEN [ s EXCEPT !.failed = TRUE ]
    ELSE LET read == Head(reads)
             chunk == SubSeq(source, 1, read)
         IN  compress_loop_ignores_eof(c, SubSeq(source, read + 1, Len(source)),
                 Tail(reads),
                 [ s EXCEPT !.w = IF c.tag = "Store" THEN write_all(s.w, chunk) ELSE s.w,
                            !.fed = s.fed \o chunk,
                            !.hasher = HashFrom(s.hasher, chunk),
                            !.total_read = s.total_read + read ])

RECURSIVE compress_loop(_, _, _, _)
compress_loop(c, source, reads, s) ==
    IF reads = << >> \/ Head(reads) = 0 THEN s
    ELSE IF Head(reads) = ReadErr THEN [ s EXCEPT !.failed = TRUE ]
    ELSE LET read == Head(reads)
             chunk == SubSeq(source, 1, read)
         IN  compress_loop(c, SubSeq(source, read + 1, Len(source)), Tail(reads),
                 [ s EXCEPT !.w = IF c.tag = "Store" THEN write_all(s.w, chunk) ELSE s.w,
                            !.fed = s.fed \o chunk,
                            !.hasher = HashFrom(s.hasher, chunk),
                            !.total_read = s.total_read + read ])

\* Compressor::compress against the sink: after the loop the encoder is shut
\* down, which sends the codec's bytes to the sink; the writer, the hasher
\* and the bytes read are handed back (Ok(total_read)), or the error of the
\* read that failed, before any shutdown of the encoder
\* the arms of Compressor::compress that end with zencoder.shutdown(): the
\* encoder is an AsyncWrite around the writer it was given, and its shutdown
\* ends the compressed stream and then shuts that writer down
ShutsWriterDown(c) == c.tag \in { "Deflate", "BZip2", "Lzma", "Zstd", "Xz" }

\* zencoder.shutdown().await: the codec's bytes go to the writer, which is
\* the byte-counting wrapper, and then the writer's poll_shutdown is called
encoder_shutdown(w, c, level, fed) ==
    wrapper_poll_shutdown(write_all(w, CodecOutputAt(c, level, fed)), ReadyOk(0)).w

compress(w, f, level) ==
    LET s == compress_loop(f.compressor, f.payload, f.reads,
                 [ w |-> w, fed |-> << >>, hasher |-> 0, total_read |-> 0,
                   failed |-> FALSE ])
    IN  [ w |-> IF f.compressor.tag = "Store" \/ s.failed THEN s.w
                ELSE IF ShutsWriterDown(f.compressor)
                THEN encoder_shutdown(s.w, f.compressor, level, s.fed)
                ELSE write_all(s.w, CodecOutputAt(f.compressor, level, s.fed)),
          hasher |-> s.hasher,
          total_read |-> s.total_read,
          fed |-> s.fed,
          ok |-> ~ s.failed ]

\* compress that fails (a source read or a sink write) after n bytes of the
\* codec's output went through
compress_failed(w, f, level, n) ==
    write_failed(w, CodecOutputAt(f.compressor, level, f.payload), n)

\* a data descriptor without its signature
data_descriptor_no_signature(crc32, compressed_size, uncompressed_size) ==
    write_u32(crc32)
    \o write_u32(AsU32(compressed_size))
    \o write_u32(AsU32(uncompressed_size))

\* a data descriptor with its two sizes in each other's place
data_descriptor_sizes_swapped(crc32, compressed_size, uncompressed_size) ==
    write_u32(DATA_DESCRIPTOR_SIGNATURE)
    \o write_u32(crc32)
    \o write_u32(AsU32(uncompressed_size))
    \o write_u32(AsU32(compressed_size))

data_descriptor(crc32, compressed_size, uncompressed_size) ==
    write_u32(DATA_DESCRIPTOR_SIGNATURE)
    \o write_u32(crc32)
    \o write_u32(AsU32(compressed_size))
    \o write_u32(AsU32(uncompressed_size))

\* an append_file that pushes the entry before it writes the data descriptor
stream_append_file_push_early(w, f, fail) ==
    LET offset == AsU32(w.written_bytes_count)
        general_purpose_flags == stream_flags(f.name)
        file_header == file_header_bytes(f.name, f.compressor, general_purpose_flags)
        w1 == write_all(w, file_header)
        cur_size == w1.written_bytes_count
        compressed == compress(w1, f, f.compression_level)
        w2 == compressed.w
        compressed_size == w2.written_bytes_count - cur_size
        crc32 == compressed.hasher
        file_descriptor ==
            data_descriptor(crc32, compressed_size, compressed.total_read)
        entry == [ ArchiveFileEntry(f.name, f.compressor, offset, general_purpose_flags)
                     EXCEPT !.uncompressed_size = AsU32(compressed.total_read),
                            !.compressed_size = AsU32(compressed_size),
                            !.crc32 = crc32 ]
        w3 == [ w2 EXCEPT !.files_info = Append(w.files_info, entry) ]
    IN  IF fail.at = "header" THEN Err(write_failed(w, file_header, fail.n))
        ELSE IF is_unknown(f.compressor) THEN Rejected(w1, fail.at)
        ELSE IF fail.at = "compress"
             THEN Err(compress_failed(w1, f, f.compression_level, fail.n))
        ELSE IF fail.at = "descriptor" THEN Err(write_failed(w3, file_descriptor, fail.n))
        ELSE Ok(write_all(w3, file_descriptor))

\* ZipArchive::append_file (streaming): compress gets options.compression_level
stream_append_file(w, f, fail) ==
    LET offset == AsU32(w.written_bytes_count)
        general_purpose_flags == stream_flags(f.name)
        file_header == file_header_bytes(f.name, f.compressor, general_purpose_flags)
        w1 == write_all(w, file_header)
        cur_size == w1.written_bytes_count
        compressed == compress(w1, f, f.compression_level)
        w2 == compressed.w
        uncompressed_size == compressed.total_read
        compressed_size == w2.written_bytes_count - cur_size
        crc32 == compressed.hasher
        file_descriptor == data_descriptor(crc32, compressed_size, uncompressed_size)
        w3 == write_all(w2, file_descriptor)
        entry == [ ArchiveFileEntry(f.name, f.compressor, offset, general_purpose_flags)
                     EXCEPT !.uncompressed_size = AsU32(uncompressed_size),
                            !.compressed_size = AsU32(compressed_size),
                            !.crc32 = crc32 ]
    IN  IF fail.at = "header" THEN Err(write_failed(w, file_header, fail.n))
        ELSE IF is_unknown(f.compressor) THEN Rejected(w1, fail.at)
        ELSE IF fail.at = "compress"
             THEN Err(compress_failed(w1, f, f.compression_level, fail.n))
        ELSE IF fail.at = "descriptor" THEN Err(write_failed(w2, file_descriptor, fail.n))
        ELSE Ok([ w3 EXCEPT !.files_info = Append(w.files_info, entry) ])

\* the twelve bytes patched into the header: CRC, compressed size, uncompressed size
file_data(crc32, compressed_size, uncompressed_size) ==
    write_u32(crc32) \o write_u32(AsU32(compressed_size)) \o write_u32(uncompressed_size)

\* ZipArchiveNoStream::append_file (seekable): compress gets Level::Default
seek_append_file(w, f, fail) ==
    LET file_header_offset == w.archive_size
        built == build_file_header(f.name, f.compressor, AsU32(file_header_offset))
        w1 == write_all(w, built.file_header)
        file_begin == w1.pos
        compressed == compress(w1, f, "Default")
        w2 == compressed.w
        uncompressed_size == AsU32(compressed.total_read)
        w3 == [ w2 EXCEPT !.archive_size = w2.pos ]
        compressed_size == w3.archive_size - file_begin
        crc32 == compressed.hasher
        entry == [ built.archive_file_entry
                     EXCEPT !.crc32 = crc32,
                            !.compressed_size = AsU32(compressed_size),
                            !.uncompressed_size = uncompressed_size ]
        patch == file_data(crc32, compressed_size, uncompressed_size)
        w4 == seek(w3, file_header_offset + FILE_HEADER_CRC_OFFSET)
        w5 == write_all(w4, patch)
        w6 == seek(w5, w3.archive_size)
    IN  IF fail.at = "header" THEN Err(write_failed(w, built.file_header, fail.n))
        ELSE IF fail.at = "position_begin" THEN Err(w1)
        ELSE IF is_unknown(f.compressor) THEN Rejected(w1, fail.at)
        ELSE IF fail.at = "compress" THEN Err(compress_failed(w1, f, "Default", fail.n))
        ELSE IF fail.at = "position_end" THEN Err(w2)
        ELSE IF fail.at = "seek_back" THEN Err(w3)
        ELSE IF fail.at = "patch" THEN Err(write_failed(w4, patch, fail.n))
        ELSE IF fail.at = "seek_fwd" THEN Err(w5)
        ELSE Ok([ w6 EXCEPT !.files_info = Append(w.files_info, entry) ])

\* Archive::append_base, behind Archive::append_file: the statements of
\* ZipArchive::append_file, with the compress of compression.rs, which takes
\* no level
append_base(w, f, fail) ==
    stream_append_file(w, [ f EXCEPT !.compression_level = "Default" ], fail)

\* the header of append_base_local_headed: CRC and sizes are in it
local_header_bytes(file_name, compressor, flags, crc, compressed_size, uncompressed_size) ==
    write_u32(LOCAL_FILE_HEADER_SIGNATURE)
    \o write_u16(version_needed(compressor))
    \o write_u16(flags)
    \o write_u16(compression_method(compressor))
    \o write_u16(ms_dos.time)
    \o write_u16(ms_dos.date)
    \o write_u32(crc)
    \o write_u32(compressed_size)
    \o write_u32(uncompressed_size)
    \o write_u16(AsU16(Len(as_bytes(file_name))))
    \o write_u16(0)
    \o as_bytes(file_name)

\* AsyncWriteWrapper::new(Vec::new()): the buffer that compress fills
BufferWriter ==
    [ variant |-> "buffer", sink |-> << >>, pos |-> 0, written_bytes_count |-> 0,
      sink_shutdown |-> FALSE ]

\* a no-extend append that leaves the CRC and size fields of the header zero
append_base_local_headed_zero_header(w, f, fail) ==
    LET offset == AsU32(w.written_bytes_count)
        general_purpose_flags == utf8_flag(f.name, 0)
        compressed == compress(BufferWriter, f, "Default")
        retreived_buffer == compressed.w.sink
        entry == [ ArchiveFileEntry(f.name, f.compressor, offset, general_purpose_flags)
                     EXCEPT !.compressed_size = AsU32(Len(retreived_buffer)),
                            !.uncompressed_size = AsU32(compressed.total_read),
                            !.crc32 = compressed.hasher ]
        file_header == file_header_bytes(f.name, f.compressor, general_purpose_flags)
        w1 == write_all(w, file_header)
        w2 == write_all(w1, retreived_buffer)
    IN  IF is_unknown(f.compressor) THEN Rejected(w, fail.at)
        ELSE IF fail.at = "compress" THEN Err(w)
        ELSE IF fail.at = "header" THEN Err(write_failed(w, file_header, fail.n))
        ELSE IF fail.at = "payload" THEN Err(write_failed(w1, retreived_buffer, fail.n))
        ELSE Ok([ w2 EXCEPT !.files_info = Append(w.files_info, entry) ])

\* Archive::append_base_local_headed, behind Archive::append_file_no_extend:
\* compress fills a buffer, then the header and the buffer are written
append_base_local_headed(w, f, fail) ==
    LET offset == AsU32(w.written_bytes_count)
        general_purpose_flags == utf8_flag(f.name, 0)
        compressed == compress(BufferWriter, f, "Default")
        uncompressed_size == AsU32(compressed.total_read)
        retreived_buffer == compressed.w.sink
        compressed_size == AsU32(Len(retreived_buffer))
        crc == compressed.hasher
        file_header ==
            local_header_bytes(f.name, f.compressor, general_purpose_flags, crc,
                               compressed_size, uncompressed_size)
        w1 == write_all(w, file_header)
        w2 == write_all(w1, retreived_buffer)
        entry == [ ArchiveFileEntry(f.name, f.compressor, offset, general_purpose_flags)
                     EXCEPT !.compressed_size = compressed_size,
                            !.uncompressed_size = uncompressed_size,
                            !.crc32 = crc ]
    IN  IF is_unknown(f.compressor) THEN Rejected(w, fail.at)
        ELSE IF fail.at = "compress" THEN Err(w)
        ELSE IF fail.at = "header" THEN Err(write_failed(w, file_header, fail.n))
        ELSE IF fail.at = "payload" THEN Err(write_failed(w1, retreived_buffer, fail.n))
        ELSE Ok([ w2 EXCEPT !.files_info = Append(w.files_info, entry) ])

---------------------------------------------------------------------------
(* finalize                                                                *)

\* `(0o100644 << 16) as u32`, regular file rw-r--r--: the mode 0o100644 in the
\* high half of the field, zero in the low half
external_attributes == write_u16(0) \o write_u16(33188)

build_central_directory_file_header(file_info) ==
    write_u32(CENTRAL_DIRECTORY_ENTRY_SIGNATURE)
    \o write_u16(VERSION_MADE_BY)
    \o write_u16(file_info.version_needed)
    \o write_u16(file_info.general_purpose_flags)
    \o write_u16(file_info.compression_method)
    \o write_u16(file_info.last_mod_file_time)
    \o write_u16(file_info.last_mod_file_date)
    \o write_u32(file_info.crc32)
    \o write_u32(file_info.compressed_size)
    \o write_u32(file_info.uncompressed_size)
    \o write_u16(file_info.file_name_len)
    \o write_u16(0)
    \o write_u16(0)
    \o write_u16(0)
    \o write_u16(0)
    \o external_attributes
    \o write_u32(file_info.offset)
    \o file_info.file_name_as_bytes

\* a count that is one too large
total_number_of_entries_plus_one(n) == AsU16(n + 1)

\* `data.files_info.len() as u16`
total_number_of_entries(n) == AsU16(n)

build_central_directory_end(data, central_directory_offset, central_directory_size) ==
    LET zip_file_comment_length == AsU16(Len(data.archive_comment))
    IN  write_u32(CENTRAL_DIRECTORY_END_SIGNATURE)
        \o write_u16(0)
        \o write_u16(0)
        \o write_u16(total_number_of_entries(Len(data.files_info)))
        \o write_u16(total_number_of_entries(Len(data.files_info)))
        \o write_u32(central_directory_size)
        \o write_u32(central_directory_offset)
        \o write_u16(zip_file_comment_length)
        \o (IF zip_file_comment_length > 0 THEN data.archive_comment ELSE << >>)

\* the loop of finalize: one central directory record per entry, in order
RECURSIVE write_central_directory(_, _)
write_central_directory(w, infos) ==
    IF infos = << >> THEN w
    ELSE write_central_directory(
             write_all(w, build_central_directory_file_header(Head(infos))),
             Tail(infos))

\* the writer's idea of the bytes written so far: the wrapper's count
\* (ZipArchive, Archive) or the sink's stream position (ZipArchiveNoStream)
current_size(w) == IF w.variant = "seek" THEN w.pos ELSE w.written_bytes_count

\* the offset taken after the directory was written instead of before
cd_offset_after_directory(w) ==
    AsU32(current_size(write_central_directory(w, w.files_info)))

\* the first statement of finalize: the offset of the central directory
cd_offset(w) == AsU32(current_size(w))

\* Archive::get_archive_comment, the setter of archive.rs: the comment is kept
\* whole (None and the empty comment are both the empty sequence here: both
\* give size 0 and no comment bytes)
get_archive_comment(w, comment) == [ w EXCEPT !.archive_comment = comment ]

\* Archive::get_archive_comment_size
get_archive_comment_size(w) == AsU16(Min(Len(w.archive_comment), U16_MOD - 1))

\* the end record of Archive::finalize: the whole comment is written by
\* write_str when the size is not zero
archive_central_directory_end(w, central_directory_offset, central_directory_size) ==
    LET zip_file_comment_length == get_archive_comment_size(w)
    IN  write_u32(CENTRAL_DIRECTORY_END_SIGNATURE)
        \o write_u16(0)
        \o write_u16(0)
        \o write_u16(total_number_of_entries(Len(w.files_info)))
        \o write_u16(total_number_of_entries(Len(w.files_info)))
        \o write_u32(central_directory_size)
        \o write_u32(central_directory_offset)
        \o write_u16(zip_file_comment_length)
        \o (IF zip_file_comment_length > 0 THEN w.archive_comment ELSE << >>)

\* Byte counts that pass 2^31 are kept as two 16-bit-based limbs, the value
\* being hi * 2^16 + lo with 0 <= lo < 2^16: a u64 count of the wrapper, or
\* a u32 when hi < 2^16
Wide(n) == [ hi |-> n \div U16_MOD, lo |-> n % U16_MOD ]

\* count + n, for a byte count n below 2^31
WideAdd(x, n) ==
    [ hi |-> x.hi + (x.lo + n) \div U16_MOD, lo |-> (x.lo + n) % U16_MOD ]

\* `x as u32` of a u64 count: the low 32 bits
WideAsU32(x) == [ hi |-> x.hi % U16_MOD, lo |-> x.lo ]

WideLess(a, b) == a.hi < b.hi \/ (a.hi = b.hi /\ a.lo < b.lo)

\* a - b modulo 2^32, for u32 values a and b
WideWrappingSub(a, b) ==
    LET borrow == IF a.lo < b.lo THEN 1 ELSE 0
    IN  [ hi |-> (a.hi - b.hi - borrow + U16_MOD) % U16_MOD,
          lo |-> (a.lo - b.lo + U16_MOD) % U16_MOD ]

\* the builds of the crate: with overflow checks (debug) and without (release)
Builds == { "debug", "release" }

\* `current_archive_size as u32 - central_directory_offset`: a u32 subtraction,
\* which panics on underflow when overflow checks are on and wraps otherwise
central_directory_size_u32(current_archive_size, central_directory_offset, build) ==
    LET a == WideAsU32(current_archive_size)
        underflow == WideLess(a, central_directory_offset)
    IN  [ underflow |-> underflow,
          panic |-> underflow /\ build = "debug",
          value |-> WideWrappingSub(a, central_directory_offset) ]

\* the size computation of finalize on a writer whose count of bytes written
\* is `count` (a Wide) and whose entries are `infos`: the offset is taken, the
\* records are written, the count is taken again and the two are subtracted
finalize_directory_size(count, infos, build) ==
    LET central_directory_offset == WideAsU32(count)
        directory == write_central_directory(
                         [ variant |-> "stream", sink |-> << >>, pos |-> 0,
                           written_bytes_count |-> 0, sink_shutdown |-> FALSE ], infos)
        current_archive_size == WideAdd(count, directory.written_bytes_count)
    IN  [ central_directory_offset |-> central_directory_offset,
          directory_bytes |-> Len(directory.sink),
          size |-> central_directory_size_u32(current_archive_size,
                                              central_directory_offset, build) ]

\* ZipArchive::finalize, ZipArchiveNoStream::finalize and Archive::finalize
finalize(w, fail) ==
    LET central_directory_offset == cd_offset(w)
        w1 == write_central_directory(w, w.files_info)
        current_archive_size == current_size(w1)
        central_directory_size ==
            AsU32(AsU32(current_archive_size) - central_directory_offset)
        end_of_central_directory ==
            IF w.variant = "archive"
            THEN archive_central_directory_end(w, central_directory_offset,
                                               central_directory_size)
            ELSE build_central_directory_end(w, central_directory_offset,
                                             central_directory_size)
        w2 == write_all(w1, end_of_central_directory)
        w3 == IF w.variant = "seek" THEN [ w2 EXCEPT !.archive_size = w2.pos ] ELSE w2
    IN  IF fail.at = "end" THEN Err(write_failed(w1, end_of_central_directory, fail.n))
        ELSE Ok(w3)

\* ZipArchive::set_archive_comment
set_archive_comment(w, comment) ==
    [ w EXCEPT !.archive_comment = Prefix(comment, U16_MOD - 1) ]

---------------------------------------------------------------------------
(* The state machine                                                       *)

NoProbe == [ fn |-> "none", arg |-> 0, res |-> << >> ]

Init ==
    /\ variant \in { "stream", "seek" }
    /\ sink = << >>
    /\ pos = 0
    /\ written_bytes_count = 0
    /\ archive_size = 0
    /\ files_info = << >>
    /\ archive_comment = << >>
    /\ sink_shutdown = FALSE
    /\ last = [ op |-> "new", ok |-> TRUE, error |-> "none", at |-> 0, len |-> 0,
                f |-> << >>, fail |-> NoFail ]
    /\ hist = [ ops |-> 0, appended |-> 0, failed |-> 0, finalized |-> 0,
                backpatch_failed |-> FALSE, panicked |-> FALSE ]
    /\ probe = NoProbe

\* the names under which the calls that append an entry are recorded
AppendOps == { "append", "append_no_extend" }

\* the call returned: the writer's fields and the record of the call
Return(r, op, f, fail) ==
    /\ sink' = r.w.sink
    /\ pos' = r.w.pos
    /\ written_bytes_count' = r.w.written_bytes_count
    /\ archive_size' = r.w.archive_size
    /\ files_info' = r.w.files_info
    /\ archive_comment' = r.w.archive_comment
    /\ sink_shutdown' = r.w.sink_shutdown
    /\ last' = [ op |-> op, ok |-> r.ok, error |-> r.error, at |-> pos,
                 len |-> Len(sink), f |-> f, fail |-> fail ]
    /\ hist' = [ ops |-> hist.ops + 1,
                 appended |-> hist.appended + (IF op \in AppendOps /\ r.ok THEN 1 ELSE 0),
                 failed |-> hist.failed + (IF r.ok THEN 0 ELSE 1),
                 finalized |-> hist.finalized + (IF op = "finalize" /\ r.ok THEN 1 ELSE 0),
                 backpatch_failed |->
                     hist.backpatch_failed
                     \/ fail.at \in { "seek_back", "patch", "seek_fwd" },
                 panicked |-> r.error = "panic" ]
    /\ UNCHANGED << variant, probe >>

MayFail(fail) == fail = NoFail \/ hist.failed < MaxFailures

\* the writer can be called: a panic inside a call ends the use of the writer
Callable == hist.ops < MaxOps /\ ~ hist.panicked

AppendStream ==
    /\ variant = "stream"
    /\ Callable
    /\ \E f \in Files : \E fail \in FailsOf(f, StreamFails) :
          /\ MayFail(fail)
          /\ Return(stream_append_file(Writer, f, fail), "append", f, fail)

AppendSeek ==
    /\ variant = "seek"
    /\ Callable
    /\ \E f \in Files : \E fail \in FailsOf(f, SeekFails) :
          /\ MayFail(fail)
          /\ Return(seek_append_file(Writer, f, fail), "append", f, fail)

Finalize ==
    /\ Callable
    /\ \E fail \in { NoFail } \cup FinalizeFails :
          /\ MayFail(fail)
          /\ Return(finalize(Writer, fail), "finalize", << >>, fail)

SetArchiveComment ==
    /\ Callable
    /\ hist.ops = 0
    /\ \E comment \in Comments \ { << >> } :
          Return(Ok(set_archive_comment(Writer, comment)), "comment", << >>, NoFail)

Next == AppendStream \/ AppendSeek \/ Finalize \/ SetArchiveComment

Spec == Init /\ [][Next]_vars

---------------------------------------------------------------------------
(* The end record of writers that hold many entries                        *)

\* the numbers of entries tried: the small ones and those around 2^16
EntryCounts == (0 .. MaxProbe) \cup { U16_MOD - 1, U16_MOD, U16_MOD + 1 }

\* the data of a writer that holds n entries (only their number is read by
\* build_central_directory_end) and no comment
DataOf(n) == [ files_info |-> [ i \in 1 .. n |-> i ], archive_comment |-> << >> ]

\* build_central_directory_end applied to a writer that holds n entries
ProbeEnd ==
    /\ probe = NoProbe
    /\ \E n \in EntryCounts :
          probe' = [ fn |-> "build_central_directory_end", arg |-> n,
                     res |-> build_central_directory_end(DataOf(n), 0, 0) ]
    /\ UNCHANGED << variant, sink, pos, written_bytes_count, archive_size,
                    files_info, archive_comment, sink_shutdown, last, hist >>

\* the comment lengths tried: the small ones and those around 2^16
CommentLengths == { 0, 1, 2, U16_MOD - 2, U16_MOD - 1, U16_MOD, U16_MOD + 1 }

\* a comment of n bytes
CommentOf(n) == [ i \in 1 .. n |-> 97 + (i % 7) ]

\* the end record of an empty archive whose comment was set to n bytes, by
\* ZipArchive (set_archive_comment, build_central_directory_end) and by
\* Archive (get_archive_comment, finalize)
ProbeComment ==
    /\ probe = NoProbe
    /\ \E n \in CommentLengths, writer \in { "ZipArchive", "Archive" } :
          probe' = [ fn |-> "comment", arg |-> [ len |-> n, writer |-> writer ],
                     res |->
                       IF writer = "ZipArchive"
                       THEN build_central_directory_end(
                                set_archive_comment(DataOf(0), CommentOf(n)), 0, 0)
                       ELSE archive_central_directory_end(
                                get_archive_comment(DataOf(0), CommentOf(n)), 0, 0) ]
    /\ UNCHANGED << variant, sink, pos, written_bytes_count, archive_size,
                    files_info, archive_comment, sink_shutdown, last, hist >>

\* the payloads given to Store: every sequence of up to MaxPayload bytes
\* over two byte values
RECURSIVE Payloads(_)
Payloads(n) ==
    IF n = 0 THEN { << >> }
    ELSE Payloads(n - 1)
         \cup { << b >> \o p : b \in { 104, 105 },
                               p \in { q \in Payloads(n - 1) : Len(q) = n - 1 } }

\* the ways a source can hand over n bytes: the byte counts of its reads
RECURSIVE Splits(_)
Splits(n) ==
    IF n = 0 THEN { << >> }
    ELSE UNION { { << k >> \o s : s \in Splits(n - k) } : k \in 1 .. n }

\* a writer of the given kind on an empty sink
FreshWriter(v) ==
    [ variant |-> v, sink |-> << >>, pos |-> 0, written_bytes_count |-> 0,
      archive_size |-> 0, files_info |-> << >>, archive_comment |-> << >>,
      sink_shutdown |-> FALSE ]

\* one append of "a" with Store to a fresh writer, for every payload and
\* every way of reading it: by ZipArchive, by ZipArchiveNoStream and by
\* Archive::append_file_no_extend
ProbeStore ==
    /\ probe = NoProbe
    /\ \E v \in { "stream", "seek", "archive" }, payload \in Payloads(MaxPayload) :
          \E reads \in Splits(Len(payload)) :
              LET f == [ name |-> << 97 >>, compressor |-> Unit("Store"),
                         payload |-> payload, permissions |-> NoPermissions,
                         compression_level |-> "Default", reads |-> reads ]
                  r == CASE v = "stream" -> stream_append_file(FreshWriter(v), f, NoFail)
                         [] v = "seek" -> seek_append_file(FreshWriter(v), f, NoFail)
                         [] v = "archive" ->
                                append_base_local_headed(FreshWriter(v), f, NoFail)
              IN  probe' = [ fn |-> "store", arg |-> f, res |-> r ]
    /\ UNCHANGED << variant, sink, pos, written_bytes_count, archive_size,
                    files_info, archive_comment, sink_shutdown, last, hist >>

\* what the reads of a source can return: the byte counts of a way of
\* handing over the n bytes, then the end of the source (a read of 0), after
\* which the source would hand over one more byte if it were read again; or
\* some of these reads and then an error
ReadScripts(n) ==
    LET whole == { s \o << 0, 1 >> : s \in Splits(n) }
    IN  whole \cup UNION { { SubSeq(s, 1, k) \o << ReadErr >> : k \in 0 .. Len(s) } :
                              s \in Splits(n) }

\* Compressor::compress of every variant but Unknown, writing to a fresh
\* AsyncWriteWrapper, from a source that holds a payload and one more byte
\* behind its end
ProbeCompress ==
    /\ probe = NoProbe
    /\ \E c \in { x \in Compressors : ~ is_unknown(x) }, payload \in Payloads(MaxPayload) :
          \E reads \in ReadScripts(Len(payload)) :
              LET f == [ name |-> << 97 >>, compressor |-> c,
                         payload |-> payload \o << 33 >>,
                         permissions |-> NoPermissions,
        compression_level |-> "Default", reads |-> reads ]
              IN  probe' = [ fn |-> "compress",
                             arg |-> [ compressor |-> c, source |-> payload,
                                       reads |-> reads ],
                             res |-> compress(FreshWriter("stream"), f, "Default") ]
    /\ UNCHANGED << variant, sink, pos, written_bytes_count, archive_size,
                    files_info, archive_comment, sink_shutdown, last, hist >>

\* the byte counts at which finalize is tried: small ones, and those within
\* a directory's length of 2^32 (2^32 - d is 65535 * 2^16 + (2^16 - d))
CountsBeforeFinalize ==
    { Wide(n) : n \in { 0, 47, 1000 } }
    \cup { [ hi |-> U16_MOD - 1, lo |-> U16_MOD - d ] : d \in { 1, 10, 47, 48, 95, 96, 200 } }
    \cup { [ hi |-> U16_MOD, lo |-> 0 ], [ hi |-> U16_MOD, lo |-> 5 ] }

\* the entry lists at which finalize is tried: none, "a", and "a" and "bc"
EntryLists ==
    { << >>,
      << ArchiveFileEntry(<< 97 >>, Unit("Store"), 0, 0) >>,
      << ArchiveFileEntry(<< 97 >>, Unit("Store"), 0, 0),
         ArchiveFileEntry(<< 98, 99 >>, Unit("Store"), 40, 0) >> }

\* the directory size that finalize computes, for a writer that has written
\* `count` bytes and holds the entries `infos`, in either build
ProbeDirectorySize ==
    /\ probe = NoProbe
    /\ \E count \in CountsBeforeFinalize, infos \in EntryLists, build \in Builds :
          probe' = [ fn |-> "central_directory_size",
                     arg |-> [ count |-> count, infos |-> infos, build |-> build ],
                     res |-> finalize_directory_size(count, infos, build) ]
    /\ UNCHANGED << variant, sink, pos, written_bytes_count, archive_size,
                    files_info, archive_comment, sink_shutdown, last, hist >>

\* the sequences of at most n files whose compressor is written
RECURSIVE FileSeqs(_)
FileSeqs(n) ==
    IF n = 0 THEN { << >> }
    ELSE FileSeqs(n - 1)
         \cup { q \o << f >> : q \in { x \in FileSeqs(n - 1) : Len(x) = n - 1 },
                               f \in { x \in Files : ~ is_unknown(x.compressor) } }

\* the writer after the files of q were appended to w, one after the other,
\* by append_file of its kind, every call returning Ok
RECURSIVE AppendAll(_, _)
AppendAll(w, q) ==
    IF q = << >> THEN w
    ELSE AppendAll(IF w.variant = "seek" THEN seek_append_file(w, Head(q), NoFail).w
                   ELSE stream_append_file(w, Head(q), NoFail).w,
                   Tail(q))

\* the archive a writer of kind v makes of the files of q: the sink after
\* the appends and finalize, the entries, and where the directory begins
ArchiveOf(v, q) ==
    LET appended == AppendAll(FreshWriter(v), q)
        done == finalize(appended, NoFail).w
    IN  [ sink |-> done.sink, files_info |-> done.files_info,
          directory |-> Len(appended.sink) ]

\* the same files appended to a ZipArchive and to a ZipArchiveNoStream, each
\* then finalized
ProbeBothWriters ==
    /\ probe = NoProbe
    /\ \E q \in FileSeqs(MaxOps - 1) :
          probe' = [ fn |-> "both", arg |-> q,
                     res |-> [ stream |-> ArchiveOf("stream", q),
                               seek |-> ArchiveOf("seek", q) ] ]
    /\ UNCHANGED << variant, sink, pos, written_bytes_count, archive_size,
                    files_info, archive_comment, sink_shutdown, last, hist >>

\* one append of "a" to a fresh ZipArchive and to a fresh ZipArchiveNoStream,
\* with every compressor that is written and every level in the options
ProbeLevel ==
    /\ probe = NoProbe
    /\ \E v \in { "stream", "seek" }, level \in Levels :
          \E c \in { x \in Compressors : ~ is_unknown(x) } :
              LET f == [ name |-> << 97 >>, compressor |-> c,
                         payload |-> << 104, 105 >>, permissions |-> NoPermissions,
                         compression_level |-> level, reads |-> << 2 >> ]
                  r == IF v = "stream" THEN stream_append_file(FreshWriter(v), f, NoFail)
                       ELSE seek_append_file(FreshWriter(v), f, NoFail)
              IN  probe' = [ fn |-> "level", arg |-> f, res |-> r ]
    /\ UNCHANGED << variant, sink, pos, written_bytes_count, archive_size,
                    files_info, archive_comment, sink_shutdown, last, hist >>

\* the name lengths tried: short ones, those around the 200 bytes that the
\* buffer of a directory record is sized for, and those around 2^16
NameLengths == { 1, 2, 200, 201, U16_MOD - 1, U16_MOD, U16_MOD + 1 }

\* an ASCII name of n bytes, as a tuple
NameOf(n) == << >> \o [ i \in 1 .. n |-> 97 + (i % 5) ]

\* the local header and the central directory record that are built for an
\* entry whose name has n bytes
ProbeName ==
    /\ probe = NoProbe
    /\ \E n \in NameLengths :
          LET built == build_file_header(NameOf(n), Unit("Store"), 0)
          IN  probe' = [ fn |-> "name", arg |-> n,
                         res |-> [ header |-> built.file_header,
                                   record |-> build_central_directory_file_header(
                                                  built.archive_file_entry) ] ]
    /\ UNCHANGED << variant, sink, pos, written_bytes_count, archive_size,
                    files_info, archive_comment, sink_shutdown, last, hist >>

\* the method codes tried: the six known ones, their neighbours, and the ends
\* of the 16-bit range
MethodCodes == (0 .. 15) \cup { 92, 93, 94, 95, 96, 99, U16_MOD - 1 }

\* a decoding that takes LZMA's code for Zstd's
from_compression_method_lzma_as_zstd(code) ==
    CASE code = STORE -> Unit("Store")
      [] code = DEFALTE -> Unit("Deflate")
      [] code = BZIP2 -> Unit("BZip2")
      [] code = LZMA -> Unit("Zstd")
      [] code = ZSTD -> Unit("Zstd")
      [] code = XZ -> Unit("Xz")
      [] OTHER -> Unknown(code)

\* Compressor::from_compression_method
from_compression_method(code) ==
    CASE code = STORE -> Unit("Store")
      [] code = DEFALTE -> Unit("Deflate")
      [] code = BZIP2 -> Unit("BZip2")
      [] code = LZMA -> Unit("Lzma")
      [] code = ZSTD -> Unit("Zstd")
      [] code = XZ -> Unit("Xz")
      [] OTHER -> Unknown(code)

\* every variant of Compressor: the seven unit variants and Unknown(code) for
\* the codes tried
AllCompressors ==
    { Unit(t) : t \in { "Store", "Deflate", "DeflateFate2", "BZip2", "Lzma", "Zstd", "Xz" } }
    \cup { Unknown(code) : code \in MethodCodes }

\* from_compression_method of a code, and the code of the result
ProbeFromMethod ==
    /\ probe = NoProbe
    /\ \E code \in MethodCodes :
          probe' = [ fn |-> "from_compression_method", arg |-> code,
                     res |-> [ compressor |-> from_compression_method(code),
                               method |-> compression_method(
                                              from_compression_method(code)) ] ]
    /\ UNCHANGED << variant, sink, pos, written_bytes_count, archive_size,
                    files_info, archive_comment, sink_shutdown, last, hist >>

\* compression_method of a variant, and the variant of that code
ProbeToMethod ==
    /\ probe = NoProbe
    /\ \E x \in AllCompressors :
          probe' = [ fn |-> "compression_method", arg |-> x,
                     res |-> [ method |-> compression_method(x),
                               compressor |-> from_compression_method(
                                                  compression_method(x)) ] ]
    /\ UNCHANGED << variant, sink, pos, written_bytes_count, archive_size,
                    files_info, archive_comment, sink_shutdown, last, hist >>

ProbeNext ==
    \/ ProbeFromMethod
    \/ ProbeToMethod
    \/ ProbeName
    \/ ProbeLevel
    \/ ProbeEnd
    \/ ProbeComment
    \/ ProbeStore
    \/ ProbeCompress
    \/ ProbeDirectorySize
    \/ ProbeBothWriters

ProbeSpec == Init /\ [][ProbeNext]_vars

---------------------------------------------------------------------------
(* The byte-counting wrapper, polled directly                              *)

Bufs == { << 1 >>, << 2, 3 >>, << 4, 5, 6 >> }

IoErrors == { "BrokenPipe", "WriteZero" }

\* the results the wrapped sink can give to a write of buf: pending, an
\* error, or any count up to the length of buf
WriteResults(buf) ==
    { Pending } \cup { ReadyErr(e) : e \in IoErrors }
    \cup { ReadyOk(n) : n \in 0 .. Len(buf) }

UnitResults == { Pending, ReadyOk(0) } \cup { ReadyErr(e) : e \in IoErrors }

WrapperInit == Init /\ variant = "stream"

\* the poll returned x: the wrapper's fields and the record of the poll
Polled(x, fn, buf, r) ==
    /\ sink' = x.w.sink
    /\ pos' = x.w.pos
    /\ written_bytes_count' = x.w.written_bytes_count
    /\ sink_shutdown' = x.w.sink_shutdown
    /\ probe' = [ fn |-> fn, arg |-> [ buf |-> buf, inner |-> r ], res |-> x.res ]
    /\ hist' = [ hist EXCEPT !.ops = @ + 1 ]
    /\ UNCHANGED << variant, archive_size, files_info, archive_comment, last >>

PollWrite ==
    /\ hist.ops < MaxPolls
    /\ \E buf \in Bufs : \E r \in WriteResults(buf) :
          Polled(wrapper_poll_write(Writer, buf, r), "poll_write", buf, r)

PollFlush ==
    /\ hist.ops < MaxPolls
    /\ \E r \in UnitResults :
          Polled(wrapper_poll_flush(Writer, r), "poll_flush", << >>, r)

PollShutdown ==
    /\ hist.ops < MaxPolls
    /\ \E r \in UnitResults :
          Polled(wrapper_poll_shutdown(Writer, r), "poll_shutdown", << >>, r)

WrapperNext == PollWrite \/ PollFlush \/ PollShutdown

WrapperSpec == WrapperInit /\ [][WrapperNext]_vars

---------------------------------------------------------------------------
(* The example and the tests: one compressor, named, then used for every   *)
(* entry of an archive of file1.txt and file2.txt                          *)

\* "file1.txt" with "hello\n", handed over by one read, and "file2.txt" with
\* "world\n", handed over by two
ExampleFiles ==
    { [ name |-> << 102, 105, 108, 101, 49, 46, 116, 120, 116 >>,
        payload |-> << 104, 101, 108, 108, 111, 10 >>, reads |-> << 6 >> ],
      [ name |-> << 102, 105, 108, 101, 50, 46, 116, 120, 116 >>,
        payload |-> << 119, 111, 114, 108, 100, 10 >>, reads |-> << 4, 2 >> ] }

\* the files of the example with the compressor c
ExampleInputs(c) ==
    { [ name |-> x.name, compressor |-> c, payload |-> x.payload,
        permissions |-> NoPermissions,
        compression_level |-> "Default", reads |-> x.reads ] : x \in ExampleFiles }

\* the failures of append_base_local_headed: a read of the source inside
\* compress, the header write, the write of the buffer
NoExtendFails ==
    { [ at |-> "compress", n |-> 0 ] }
    \cup { [ at |-> a, n |-> 3 ] : a \in { "header", "payload" } }

\* Compressor::compress, which Archive calls, turns Unknown down with a panic
Panics == { x \in Rejections : x.at = "panic" }

ExampleInit ==
    /\ variant \in { "stream", "seek", "archive" }
    /\ sink = << >>
    /\ pos = 0
    /\ written_bytes_count = 0
    /\ archive_size = 0
    /\ files_info = << >>
    /\ archive_comment = << >>
    /\ sink_shutdown = FALSE
    /\ last = [ op |-> "new", ok |-> TRUE, error |-> "none", at |-> 0, len |-> 0,
                f |-> << >>, fail |-> NoFail ]
    /\ hist = [ ops |-> 0, appended |-> 0, failed |-> 0, finalized |-> 0,
                backpatch_failed |-> FALSE, panicked |-> FALSE ]
    /\ probe = NoProbe

\* impl Display for Compressor, as the tests use it to name the archive
DisplayFmt ==
    /\ probe.fn = "none"
    /\ \E c \in Compressors :
          probe' = [ fn |-> "to_string", arg |-> c,
                     res |-> compression_method_label(c) ]
    /\ UNCHANGED << variant, sink, pos, written_bytes_count, archive_size,
                    files_info, archive_comment, sink_shutdown, last, hist >>

\* append_file of the writer in use, with the compressor that was named
ExampleAppend ==
    /\ probe.fn = "to_string"
    /\ Callable
    /\ \E f \in ExampleInputs(probe.arg) :
          \E fail \in IF is_unknown(f.compressor)
                      THEN (IF variant = "archive" THEN Panics ELSE Rejections)
                      ELSE { NoFail } :
              Return(CASE variant = "stream" -> stream_append_file(Writer, f, fail)
                       [] variant = "seek" -> seek_append_file(Writer, f, fail)
                       [] variant = "archive" -> append_base(Writer, f, fail),
                     "append", f, fail)

\* Archive::append_file_no_extend
ExampleAppendNoExtend ==
    /\ probe.fn = "to_string"
    /\ variant = "archive"
    /\ Callable
    /\ \E f \in ExampleInputs(probe.arg) :
          \E fail \in IF is_unknown(f.compressor) THEN Panics
                      ELSE { NoFail } \cup NoExtendFails :
              /\ MayFail(fail)
              /\ Return(append_base_local_headed(Writer, f, fail),
                        "append_no_extend", f, fail)

ExampleFinalize ==
    /\ probe.fn = "to_string"
    /\ Callable
    /\ Return(finalize(Writer, NoFail), "finalize", << >>, NoFail)

ExampleNext == DisplayFmt \/ ExampleAppend \/ ExampleAppendNoExtend \/ ExampleFinalize

ExampleSpec == ExampleInit /\ [][ExampleNext]_vars

---------------------------------------------------------------------------
(* Reading the archive back                                                *)

U16At(s, p) == s[p + 1] + 256 * s[p + 2]

U32At(s, p) == U16At(s, p) + 65536 * U16At(s, p + 2)

HasBit(flags, bit) == (flags \div (2 ^ bit)) % 2 = 1

\* the sink holds n bytes from position p on
InSink(p, n) == p >= 0 /\ p + n <= Len(sink)

\* the bytes an entry takes in the archive: header, name, payload and, in the
\* streaming variant, the data descriptor
EntryLen(e) ==
    FILE_HEADER_BASE_SIZE + e.file_name_len + e.compressed_size
    + (IF variant = "stream" THEN DESCRIPTOR_SIZE ELSE 0)

RECURSIVE SumEntryLen(_)
SumEntryLen(infos) ==
    IF infos = << >> THEN 0 ELSE EntryLen(Head(infos)) + SumEntryLen(Tail(infos))

\* only append calls were made so far (and set_archive_comment), all Ok
OnlyGoodAppends == hist.failed = 0 /\ hist.finalized = 0

LastAppendOk == last.op = "append" /\ last.ok

LastFinalizeOk == last.op = "finalize" /\ last.ok

LastEntry == files_info[Len(files_info)]

---------------------------------------------------------------------------
(* Claims                                                                  *)

\* C1: after successful appends only, the offset recorded for entry k is the
\* sum of the lengths of the entries before it (30 + name + payload, plus 16
\* for the descriptor in the streaming variant): the first offset is 0, each
\* entry starts where the one before ends, and the last one ends where the
\* sink ends; a local header signature stands at every recorded offset.
C1_offsets_are_sums ==
    OnlyGoodAppends =>
        /\ \A k \in 1 .. Len(files_info) :
              /\ files_info[k].offset = SumEntryLen(SubSeq(files_info, 1, k - 1))
              /\ InSink(files_info[k].offset, 4)
              /\ U32At(sink, files_info[k].offset) = LOCAL_FILE_HEADER_SIGNATURE
        /\ SumEntryLen(files_info) = Len(sink)

C1_witness ==
    /\ OnlyGoodAppends
    /\ Len(files_info) = 3
    /\ files_info[3].offset > files_info[2].offset
    /\ files_info[2].offset > 0

\* C2 (as claimed): in the seekable variant the offset recorded for an entry
\* is the sink position at which its local header was written, whatever
\* appends failed before.
C2_offset_is_header_position ==
    (variant = "seek" /\ LastAppendOk) => LastEntry.offset = last.at

\* C3: in the streaming variant every entry has bit 3 set in its local header
\* and in its record, the CRC and size fields of the local header are zero,
\* and the data descriptor after the payload carries the signature and the
\* CRC and sizes of the entry; the records written by finalize carry bit 3.
StreamEntryOnSink(e) ==
    LET off == e.offset
        desc == off + FILE_HEADER_BASE_SIZE + e.file_name_len + e.compressed_size
    IN  /\ InSink(off, FILE_HEADER_BASE_SIZE)
        /\ U32At(sink, off) = LOCAL_FILE_HEADER_SIGNATURE
        /\ HasBit(U16At(sink, off + 6), 3)
        /\ HasBit(e.general_purpose_flags, 3)
        /\ U32At(sink, off + 14) = 0
        /\ U32At(sink, off + 18) = 0
        /\ U32At(sink, off + 22) = 0
        /\ InSink(desc, DESCRIPTOR_SIZE)
        /\ U32At(sink, desc) = DATA_DESCRIPTOR_SIGNATURE
        /\ U32At(sink, desc + 4) = e.crc32
        /\ U32At(sink, desc + 8) = e.compressed_size
        /\ U32At(sink, desc + 12) = e.uncompressed_size

\* the position of the k-th central directory record of a finalize that began
\* at position p
RecordPos(p, k) ==
    p + (k - 1) * CENTRAL_DIRECTORY_ENTRY_BASE_SIZE
      + (IF k = 1 THEN 0
         ELSE LET names == [ j \in 1 .. k - 1 |-> files_info[j].file_name_len ]
                  RECURSIVE Sum(_)
                  Sum(q) == IF q = << >> THEN 0 ELSE Head(q) + Sum(Tail(q))
              IN  Sum(names))

C3_streaming_defers_sizes ==
    variant = "stream" =>
        /\ \A k \in 1 .. Len(files_info) : StreamEntryOnSink(files_info[k])
        /\ LastFinalizeOk =>
              \A k \in 1 .. Len(files_info) :
                  /\ InSink(RecordPos(last.at, k), CENTRAL_DIRECTORY_ENTRY_BASE_SIZE)
                  /\ U32At(sink, RecordPos(last.at, k)) = CENTRAL_DIRECTORY_ENTRY_SIGNATURE
                  /\ HasBit(U16At(sink, RecordPos(last.at, k) + 8), 3)

C3_witness ==
    /\ variant = "stream"
    /\ LastFinalizeOk
    /\ Len(files_info) >= 2
    /\ \E k \in 1 .. Len(files_info) : files_info[k].crc32 > 0

\* C4 (as claimed): every entry appended successfully by the seekable variant
\* has bit 3 clear, the sink position left right after its payload (no data
\* descriptor), and, in its local header, the CRC and the two sizes that
\* finalize writes into its central directory record.
RecordOf(e) == build_central_directory_file_header(e)

C4_header_matches_record ==
    (variant = "seek" /\ LastAppendOk) =>
        LET e == LastEntry
            h == last.at
        IN  /\ ~ HasBit(U16At(sink, h + 6), 3)
            /\ pos = h + FILE_HEADER_BASE_SIZE + e.file_name_len + e.compressed_size
            /\ U32At(sink, h + 14) = U32At(RecordOf(e), 16)
            /\ U32At(sink, h + 18) = U32At(RecordOf(e), 20)
            /\ U32At(sink, h + 22) = U32At(RecordOf(e), 24)

\* C5 (as claimed): bit 11 of an entry's flags, in its record and in its local
\* header, is set exactly when the name has more UTF-8 bytes than characters.
C5_utf8_flag_iff_multibyte ==
    LastAppendOk =>
        LET multibyte == Len(as_bytes(last.f.name)) > Len(last.f.name)
        IN  /\ HasBit(LastEntry.general_purpose_flags, 11) <=> multibyte
            /\ HasBit(U16At(sink, last.at + 6), 11) <=> multibyte

\* C6: after successful appends only, a successful finalize writes an end
\* record whose central_directory_offset is the length the sink had when
\* finalize began, which is where the last entry ends and where the first
\* central directory record stands.
EndRecordPos == RecordPos(last.at, Len(files_info) + 1)

C6_directory_offset ==
    (LastFinalizeOk /\ hist.failed = 0 /\ hist.finalized = 1) =>
        /\ InSink(EndRecordPos, END_OF_CENTRAL_DIRECTORY_SIZE)
        /\ U32At(sink, EndRecordPos) = CENTRAL_DIRECTORY_END_SIGNATURE
        /\ U32At(sink, EndRecordPos + 16) = last.len
        /\ last.len = SumEntryLen(files_info)
        /\ Len(files_info) > 0 =>
              U32At(sink, last.len) = CENTRAL_DIRECTORY_ENTRY_SIGNATURE

C6_witness ==
    /\ LastFinalizeOk
    /\ hist.failed = 0
    /\ hist.finalized = 1
    /\ Len(files_info) >= 2
    /\ U32At(sink, EndRecordPos + 16) > 0

\* C7 (as claimed): for every number N of entries held by the writer, both
\* entry counts of the end record that finalize builds equal N.
C7_entry_counts_equal_N ==
    probe.fn = "build_central_directory_end" =>
        /\ U16At(probe.res, 8) = probe.arg
        /\ U16At(probe.res, 10) = probe.arg

\* C8 (as claimed): the records a finalize writes are the records of the
\* entries in the order of their appends, one each, followed by the end
\* record, and that order is the order of the local headers: the recorded
\* offsets increase strictly.
C8_directory_order ==
    /\ \A k \in 2 .. Len(files_info) :
          files_info[k].offset > files_info[k - 1].offset
    /\ LastFinalizeOk =>
          /\ \A k \in 1 .. Len(files_info) :
                SubSeq(sink, RecordPos(last.at, k) + 1, RecordPos(last.at, k + 1))
                    = RecordOf(files_info[k])
          /\ U32At(sink, EndRecordPos) = CENTRAL_DIRECTORY_END_SIGNATURE

\* C9: finalize as the first and only call writes the 22 bytes of an end
\* record: the signature 50 4b 05 06, then zero in every field.
C9_empty_archive ==
    (LastFinalizeOk /\ hist.ops = 1) =>
        sink = << 80, 75, 5, 6 >> \o Zeros(END_OF_CENTRAL_DIRECTORY_SIZE - 4)

C9_witness == LastFinalizeOk /\ hist.ops = 1 /\ Len(sink) = 22

\* C10 (as claimed): once finalize has returned Ok, no call writes a byte or
\* adds an entry.
C10_finalize_terminal ==
    [][ hist.finalized >= 1 => (sink' = sink /\ files_info' = files_info) ]_vars

\* the step is a call of append_file that got as far as compress with a method
\* that compress does not write
RejectedAppendStep ==
    /\ hist'.ops = hist.ops + 1
    /\ last'.op = "append"
    /\ last'.fail \in Rejections

\* C11 (as claimed): an append with a method that is not written returns the
\* error UnsuportedCompressionMethod, not an I/O error and not a panic, and
\* has written nothing: sink and position are as they were before the call.
C11_unsupported_before_any_byte ==
    [][ RejectedAppendStep =>
            /\ last'.error = "unsupported"
            /\ sink' = sink
            /\ pos' = pos ]_vars

\* the step is a call of append_file that did not return Ok
FailedAppendStep ==
    /\ hist'.ops = hist.ops + 1
    /\ last'.op = "append"
    /\ ~ last'.ok

\* C12 (as claimed): in the streaming variant the offset that the next append
\* captures (the wrapper's count) is, after a failed append, the offset that
\* the failed append captured.
C12_failed_append_keeps_offset ==
    [][ (variant = "stream" /\ FailedAppendStep /\ last'.error = "io") =>
            AsU32(written_bytes_count') = AsU32(written_bytes_count) ]_vars

\* where the sink stands after an append of f that began at position p with
\* archive_size a and stopped at the operation `fail.at`: the operations before
\* it are done, that one has moved n bytes at most, none after it is done
HeaderLen(f) == FILE_HEADER_BASE_SIZE + Len(as_bytes(f.name))

PosAfterFailure(p, a, f, fail) ==
    LET out == Len(CodecOutput(f.compressor, f.payload))
    IN  CASE fail.at = "header" -> p + Min(fail.n, HeaderLen(f))
          [] fail.at \in { "position_begin", "panic", "unsupported" } -> p + HeaderLen(f)
          [] fail.at = "compress" -> p + HeaderLen(f) + Min(fail.n, out)
          [] fail.at \in { "position_end", "seek_back" } -> p + HeaderLen(f) + out
          [] fail.at = "descriptor" -> p + HeaderLen(f) + out + Min(fail.n, DESCRIPTOR_SIZE)
          [] fail.at = "patch" -> a + FILE_HEADER_CRC_OFFSET + Min(fail.n, 12)
          [] fail.at = "seek_fwd" -> a + FILE_HEADER_CRC_OFFSET + 12

\* C13: an append that meets a failure of the sink or of the source returns
\* the I/O error, leaves the sink where the failing operation left it (no
\* operation after it is done) and leaves the entry list as it was; the number
\* of entries is always the number of appends that returned Ok.
C13_failed_append_adds_no_entry ==
    [][ /\ Len(files_info') = hist'.appended
        /\ (FailedAppendStep /\ last'.fail \notin Rejections) =>
              /\ last'.error = "io"
              /\ files_info' = files_info
              /\ pos' = PosAfterFailure(pos, archive_size, last'.f, last'.fail)
              /\ variant = "stream" =>
                    written_bytes_count' - written_bytes_count = pos' - pos ]_vars

C13_witness ==
    /\ variant = "seek"
    /\ last.op = "append"
    /\ last.fail.at = "seek_fwd"
    /\ Len(files_info) = 1
    /\ hist.failed = 2

\* C14: every poll of the wrapper hands back the result of the wrapped sink
\* unchanged; the total grows by the count of a write that is Ready(Ok(n)) and
\* by nothing otherwise (error, pending, flush, shutdown), so it is always the
\* number of bytes the wrapped sink has taken.
C14_wrapper_counts_reported_bytes ==
    [][ /\ probe'.res = probe'.arg.inner
        /\ written_bytes_count' =
              written_bytes_count
              + (IF probe'.fn = "poll_write" /\ probe'.res.poll = "Ready"
                    /\ probe'.res.ok
                 THEN probe'.res.n ELSE 0)
        /\ written_bytes_count' = Len(sink') ]_vars

C14_witness ==
    /\ probe.fn = "poll_write"
    /\ probe.res.poll = "Ready"
    /\ probe.res.ok
    /\ probe.res.n = 2
    /\ Len(probe.arg.buf) = 3
    /\ written_bytes_count = 6
    /\ hist.ops = MaxPolls

\* the step is a finalize that returns Ok right after an append that returned Ok
FinalizeAfterAppendStep ==
    /\ LastAppendOk
    /\ hist'.ops = hist.ops + 1
    /\ last'.op = "finalize"
    /\ last'.ok

\* the mode of a regular file (0o100000) with the permission bits of the
\* options, rw-r--r-- (0o644) when they set none
ClaimedMode(permissions) ==
    32768 + (IF permissions.some THEN permissions.mode ELSE 420)

\* C15 (as claimed): the external attributes of an entry's central directory
\* record hold, in their high 16 bits, the regular-file mode with the
\* permissions of the entry's options (0o644 when none was set), and zero in
\* their low 16 bits.
C15_external_attributes ==
    [][ FinalizeAfterAppendStep =>
            LET r == RecordPos(pos, Len(files_info))
            IN  /\ U32At(sink', r) = CENTRAL_DIRECTORY_ENTRY_SIGNATURE
                /\ U16At(sink', r + 38) = 0
                /\ U16At(sink', r + 40) = ClaimedMode(last.f.permissions) ]_vars

\* C16 (as claimed): for a comment of L bytes the end record declares
\* min(L, 65535) comment bytes and is followed by exactly that many, the first
\* min(L, 65535) bytes of the comment.
C16_comment_length_matches_bytes ==
    probe.fn = "comment" =>
        LET declared == U16At(probe.res, END_OF_CENTRAL_DIRECTORY_SIZE - 2)
        IN  /\ declared = Min(probe.arg.len, U16_MOD - 1)
            /\ Len(probe.res) = END_OF_CENTRAL_DIRECTORY_SIZE + declared
            /\ SubSeq(probe.res, END_OF_CENTRAL_DIRECTORY_SIZE + 1, Len(probe.res))
                   = Prefix(CommentOf(probe.arg.len), declared)

\* the table of the variants: method code, version needed, label
TableRow(c) ==
    CASE c.tag = "Store" -> << 0, 20, "store" >>
      [] c.tag = "Deflate" -> << 8, 20, "deflate" >>
      [] c.tag = "DeflateFate2" -> << 8, 20, "deflate" >>
      [] c.tag = "BZip2" -> << 12, 46, "bzip2" >>
      [] c.tag = "Lzma" -> << 14, 20, "lzma" >>
      [] c.tag = "Zstd" -> << 93, 20, "zstd" >>
      [] c.tag = "Xz" -> << 95, 20, "xz" >>
      [] c.tag = "Unknown" -> << c.code, 20, "unknown" >>

\* the local header at position p carries the version and the method of c
HeaderOf(p, c) ==
    /\ InSink(p, FILE_HEADER_BASE_SIZE)
    /\ U32At(sink, p) = LOCAL_FILE_HEADER_SIGNATURE
    /\ U16At(sink, p + 4) = TableRow(c)[2]
    /\ U16At(sink, p + 8) = TableRow(c)[1]

\* C17: the label, the method code and the version needed of the compressor
\* in use are those of the table; every entry holds them, its local header
\* carries them, and so does its central directory record after finalize; a
\* header written for Unknown(code) carries the code and version 20.
C17_compressor_table ==
    /\ probe.fn = "to_string" =>
          /\ probe.res = TableRow(probe.arg)[3]
          /\ compression_method(probe.arg) = TableRow(probe.arg)[1]
          /\ version_needed(probe.arg) = TableRow(probe.arg)[2]
    /\ \A k \in 1 .. Len(files_info) :
          /\ files_info[k].compressor = probe.arg
          /\ files_info[k].compression_method = TableRow(probe.arg)[1]
          /\ files_info[k].version_needed = TableRow(probe.arg)[2]
          /\ HeaderOf(files_info[k].offset, probe.arg)
    /\ (last.op = "append" /\ last.fail \in Rejections) => HeaderOf(last.at, probe.arg)
    /\ LastFinalizeOk =>
          \A k \in 1 .. Len(files_info) :
              /\ U32At(sink, RecordPos(last.at, k)) = CENTRAL_DIRECTORY_ENTRY_SIGNATURE
              /\ U16At(sink, RecordPos(last.at, k) + 6) = TableRow(probe.arg)[2]
              /\ U16At(sink, RecordPos(last.at, k) + 10) = TableRow(probe.arg)[1]

C17_witness ==
    /\ LastFinalizeOk
    /\ Len(files_info) = 2
    /\ probe.res = "bzip2"
    /\ U16At(sink, RecordPos(last.at, 2) + 6) = 46

\* C18: one append with Store of a payload P, read in any way, returns Ok and
\* leaves P, byte for byte, right after the 31 bytes of the header and the
\* name; the entry's uncompressed size is the length of P, its compressed
\* size is the same, its CRC is the checksum of P, and nothing but the data
\* descriptor of the streaming writer follows the payload.
C18_store_is_identity ==
    probe.fn = "store" =>
        LET P == probe.arg.payload
            w == probe.res.w
            h == FILE_HEADER_BASE_SIZE + 1
        IN  /\ probe.res.ok
            /\ Len(w.files_info) = 1
            /\ SubSeq(w.sink, h + 1, h + Len(P)) = P
            /\ Len(w.sink) =
                  h + Len(P) + (IF w.variant = "stream" THEN DESCRIPTOR_SIZE ELSE 0)
            /\ w.files_info[1].uncompressed_size = Len(P)
            /\ w.files_info[1].compressed_size = w.files_info[1].uncompressed_size
            /\ w.files_info[1].crc32 = Crc32(P)

C18_witness ==
    /\ probe.fn = "store"
    /\ probe.arg.payload = << 104, 105, 104 >>
    /\ probe.arg.reads = << 1, 2 >>
    /\ probe.res.w.variant = "seek"
    /\ probe.res.ok

\* the file of the example that has the given name
ExampleFile(name) == CHOOSE x \in ExampleFiles : as_bytes(x.name) = name

\* the archive of the example: file1.txt, then file2.txt, with Store, then
\* finalize, and nothing else
ExampleArchive ==
    /\ probe.fn = "to_string"
    /\ probe.arg = Unit("Store")
    /\ hist.ops = 3
    /\ hist.failed = 0
    /\ LastFinalizeOk
    /\ Len(files_info) = 2
    /\ files_info[1].file_name_as_bytes = << 102, 105, 108, 101, 49, 46, 116, 120, 116 >>
    /\ files_info[2].file_name_as_bytes = << 102, 105, 108, 101, 50, 46, 116, 120, 116 >>

\* C19: the archive of the example ends with two central directory records,
\* of file1.txt and of file2.txt in that order, each with both sizes 6 and
\* the checksum of its own payload, and an end record that counts 2 entries;
\* written by the streaming writer, its local headers are at 0 and 61, its
\* central directory is at 122 and takes 110 bytes.
C19_example_archive ==
    ExampleArchive =>
        /\ \A k \in 1 .. 2 :
              LET r == RecordPos(last.at, k)
                  name == files_info[k].file_name_as_bytes
              IN  /\ U32At(sink, r) = CENTRAL_DIRECTORY_ENTRY_SIGNATURE
                  /\ U32At(sink, r + 16) = Crc32(ExampleFile(name).payload)
                  /\ U32At(sink, r + 20) = 6
                  /\ U32At(sink, r + 24) = 6
                  /\ U16At(sink, r + 28) = 9
                  /\ SubSeq(sink, r + CENTRAL_DIRECTORY_ENTRY_BASE_SIZE + 1,
                            r + CENTRAL_DIRECTORY_ENTRY_BASE_SIZE + 9) = name
        /\ U32At(sink, EndRecordPos) = CENTRAL_DIRECTORY_END_SIGNATURE
        /\ U16At(sink, EndRecordPos + 8) = 2
        /\ U16At(sink, EndRecordPos + 10) = 2
        /\ Len(sink) = EndRecordPos + END_OF_CENTRAL_DIRECTORY_SIZE
        /\ Crc32(ExampleFile(files_info[1].file_name_as_bytes).payload)
              # Crc32(ExampleFile(files_info[2].file_name_as_bytes).payload)
        /\ variant = "stream" =>
              /\ files_info[1].offset = 0
              /\ files_info[2].offset = 61
              /\ U32At(sink, 0) = LOCAL_FILE_HEADER_SIGNATURE
              /\ U32At(sink, 61) = LOCAL_FILE_HEADER_SIGNATURE
              /\ U32At(sink, RecordPos(last.at, 1) + 42) = 0
              /\ U32At(sink, RecordPos(last.at, 2) + 42) = 61
              /\ U32At(sink, EndRecordPos + 12) = 110
              /\ U32At(sink, EndRecordPos + 16) = 122

C19_witness == ExampleArchive /\ variant = "stream" /\ Len(sink) = 254

\* the last operation was an append_file_no_extend of a known compressor
\* that met no failure of the sink
NoExtendDone ==
    /\ variant = "archive"
    /\ last.op = "append_no_extend"
    /\ ~ is_unknown(last.f.compressor)
    /\ last.fail = NoFail

\* entry k was written by append_file_no_extend
NoExtendEntry(k) ==
    /\ variant = "archive"
    /\ (files_info[k].general_purpose_flags \div 8) % 2 = 0

\* the end of entry k: its header, its name and its compressed payload
NoExtendEnd(k) ==
    files_info[k].offset + FILE_HEADER_BASE_SIZE + files_info[k].file_name_len
      + files_info[k].compressed_size

\* C20: append_file_no_extend of a compressor other than Unknown succeeds;
\* the local header of its entry carries the final checksum and sizes and has
\* bit 3 of the flags clear; exactly compressed_size bytes of payload follow
\* the header and no data descriptor; the next entry (appended with nothing
\* written in between) starts where the payload ends; finalize succeeds and the central directory record carries the
\* checksum and the sizes of the local header.
C20_no_extend_header_final ==
    /\ NoExtendDone =>
          LET k == Len(files_info)
              e == files_info[k]
              h == last.at
              data == h + FILE_HEADER_BASE_SIZE + e.file_name_len
          IN  /\ last.ok
              /\ k > 0
              /\ e.offset = h
              /\ e.file_name_as_bytes = as_bytes(last.f.name)
              /\ U32At(sink, h) = LOCAL_FILE_HEADER_SIGNATURE
              /\ (U16At(sink, h + 6) \div 8) % 2 = 0
              /\ U32At(sink, h + 14) = Crc32(last.f.payload)
              /\ U32At(sink, h + 14) = e.crc32
              /\ U32At(sink, h + 18) = e.compressed_size
              /\ U32At(sink, h + 22) = Len(last.f.payload)
              /\ U32At(sink, h + 22) = e.uncompressed_size
              /\ e.compressed_size = Len(CodecOutput(last.f.compressor, last.f.payload))
              /\ SubSeq(sink, data + 1, data + e.compressed_size)
                    = CodecOutput(last.f.compressor, last.f.payload)
              /\ Len(sink) = data + e.compressed_size
              /\ written_bytes_count = NoExtendEnd(k)
    /\ \A k \in 1 .. Len(files_info) :
          NoExtendEntry(k) =>
              /\ k < Len(files_info) /\ hist.failed = 0 /\ hist.finalized = 0 =>
                    files_info[k + 1].offset = NoExtendEnd(k)
              /\ k = Len(files_info) /\ last.ok /\ last.op \in AppendOps =>
                    written_bytes_count = NoExtendEnd(k)
              /\ LastFinalizeOk =>
                    LET r == RecordPos(last.at, k)
                        h == files_info[k].offset
                    IN  /\ U32At(sink, r) = CENTRAL_DIRECTORY_ENTRY_SIGNATURE
                        /\ U32At(sink, r + 16) = U32At(sink, h + 14)
                        /\ U32At(sink, r + 20) = U32At(sink, h + 18)
                        /\ U32At(sink, r + 24) = U32At(sink, h + 22)
                        /\ U32At(sink, r + 42) = h
    /\ (variant = "archive" /\ last.op = "finalize" /\ last.fail = NoFail) => last.ok

C20_witness ==
    /\ LastFinalizeOk
    /\ Len(files_info) = 2
    /\ NoExtendEntry(1)
    /\ NoExtendEntry(2)
    /\ hist.failed = 0
    /\ probe.arg = Unit("Deflate")
    /\ files_info[2].offset = NoExtendEnd(1)

\* s is a prefix of u
IsPrefix(s, u) == Len(s) <= Len(u) /\ SubSeq(u, 1, Len(s)) = s

\* C21: every call on the streaming writer leaves the sink holding what it
\* held before the call followed by the bytes the call wrote: the writes
\* begin at the end of the sink, and no byte once written is changed.
C21_stream_only_appends ==
    [][variant = "stream" => /\ pos = Len(sink)
                             /\ IsPrefix(sink, sink')
                             /\ pos' = Len(sink')]_vars

C21_witness ==
    /\ variant = "stream"
    /\ hist.appended = 2
    /\ hist.failed = 1
    /\ LastFinalizeOk
    /\ Len(sink) > last.len
    /\ last.len > 0

\* the step is a call of ZipArchiveNoStream::append_file that returned Ok
SeekAppendOkStep ==
    /\ variant = "seek"
    /\ hist'.ops = hist.ops + 1
    /\ last'.op = "append"
    /\ last'.ok

\* the bytes of s from position p (0-based) up to position q, q not included
Bytes(s, p, q) == SubSeq(s, p + 1, q)

\* C22 (as claimed): a successful seekable append that begins at position h
\* leaves the bytes before h as they were, writes the header at h and the
\* payload after it, patches the CRC, the compressed size and the uncompressed
\* size, in that order, into the 12 bytes at h + 14 .. h + 26 and changes no
\* other byte of the header, the name or the payload; the entry is pushed with
\* offset h, and the call returns with the position at the end of the payload,
\* which is the end of the sink.
C22_patch_changes_twelve_bytes ==
    [][ SeekAppendOkStep =>
            LET h == pos
                f == last'.f
                e == files_info'[Len(files_info')]
                header == file_header_bytes(f.name, f.compressor,
                                            build_file_header_flags(f.name))
                data == CodecOutput(f.compressor, f.payload)
                payload_begin == h + Len(header)
                payload_end == payload_begin + Len(data)
            IN  /\ e.offset = h
                /\ Bytes(sink', 0, h) = Bytes(sink, 0, h)
                /\ Bytes(sink', h, h + FILE_HEADER_CRC_OFFSET)
                      = Bytes(header, 0, FILE_HEADER_CRC_OFFSET)
                /\ Bytes(sink', h + FILE_HEADER_CRC_OFFSET, h + FILE_HEADER_CRC_OFFSET + 12)
                      = write_u32(Crc32(f.payload)) \o write_u32(Len(data))
                          \o write_u32(Len(f.payload))
                /\ Bytes(sink', h + FILE_HEADER_CRC_OFFSET + 12, payload_begin)
                      = Bytes(header, FILE_HEADER_CRC_OFFSET + 12, Len(header))
                /\ Bytes(sink', payload_begin, payload_end) = data
                /\ pos' = payload_end
                /\ archive_size' = payload_end
                /\ Len(sink') = Max(Len(sink), payload_end) ]_vars

\* the same, for appends on a writer none of whose calls has failed
C22_without_failed_calls ==
    [][ (SeekAppendOkStep /\ hist.failed = 0) =>
            LET h == pos
                f == last'.f
                e == files_info'[Len(files_info')]
                header == file_header_bytes(f.name, f.compressor,
                                            build_file_header_flags(f.name))
                data == CodecOutput(f.compressor, f.payload)
                payload_begin == h + Len(header)
                payload_end == payload_begin + Len(data)
            IN  /\ e.offset = h
                /\ Bytes(sink', 0, h) = Bytes(sink, 0, h)
                /\ Bytes(sink', h, h + FILE_HEADER_CRC_OFFSET)
                      = Bytes(header, 0, FILE_HEADER_CRC_OFFSET)
                /\ Bytes(sink', h + FILE_HEADER_CRC_OFFSET, h + FILE_HEADER_CRC_OFFSET + 12)
                      = write_u32(Crc32(f.payload)) \o write_u32(Len(data))
                          \o write_u32(Len(f.payload))
                /\ Bytes(sink', h + FILE_HEADER_CRC_OFFSET + 12, payload_begin)
                      = Bytes(header, FILE_HEADER_CRC_OFFSET + 12, Len(header))
                /\ Bytes(sink', payload_begin, payload_end) = data
                /\ pos' = payload_end
                /\ archive_size' = payload_end
                /\ Len(sink') = payload_end ]_vars

\* where the data descriptor of entry k begins: after its header, its name
\* and its compressed payload
DescriptorPos(k) ==
    files_info[k].offset + FILE_HEADER_BASE_SIZE + files_info[k].file_name_len
      + files_info[k].compressed_size

\* C23: every entry of the streaming writer has, right after its payload, a
\* 16-byte data descriptor: the signature, then the CRC, the compressed size
\* and the uncompressed size of the entry, which are the values of its central
\* directory record; the descriptor ends the bytes of the append, and the
\* compressed size is the number of bytes that went to the sink between the
\* end of the header and the descriptor.
C23_descriptor_after_payload ==
    variant = "stream" =>
        /\ \A k \in 1 .. Len(files_info) :
              LET e == files_info[k]
                  d == DescriptorPos(k)
              IN  /\ InSink(d, DESCRIPTOR_SIZE)
                  /\ U32At(sink, d) = DATA_DESCRIPTOR_SIGNATURE
                  /\ U32At(sink, d + 4) = e.crc32
                  /\ U32At(sink, d + 8) = e.compressed_size
                  /\ U32At(sink, d + 12) = e.uncompressed_size
                  /\ LastFinalizeOk =>
                        LET r == RecordPos(last.at, k)
                        IN  /\ U32At(sink, r + 16) = U32At(sink, d + 4)
                            /\ U32At(sink, r + 20) = U32At(sink, d + 8)
                            /\ U32At(sink, r + 24) = U32At(sink, d + 12)
        /\ LastAppendOk =>
              LET k == Len(files_info)
                  e == files_info[k]
                  header_end == last.len + HeaderLen(last.f)
              IN  /\ e.offset = last.len
                  /\ DescriptorPos(k) + DESCRIPTOR_SIZE = Len(sink)
                  /\ e.compressed_size = (Len(sink) - DESCRIPTOR_SIZE) - header_end
                  /\ Bytes(sink, header_end, DescriptorPos(k))
                        = CodecOutput(last.f.compressor, last.f.payload)
                  /\ e.crc32 = Crc32(last.f.payload)
                  /\ e.uncompressed_size = Len(last.f.payload)

C23_witness ==
    /\ variant = "stream"
    /\ LastFinalizeOk
    /\ Len(files_info) = 2
    /\ hist.failed = 1
    /\ files_info[1].compressed_size # files_info[1].uncompressed_size
    /\ files_info[2].uncompressed_size = 2

\* the reads of a script that come before its first read of 0 bytes or error
RECURSIVE ChunksRead(_)
ChunksRead(reads) ==
    IF reads = << >> \/ Head(reads) <= 0 THEN << >>
    ELSE << Head(reads) >> \o ChunksRead(Tail(reads))

RECURSIVE SumOf(_)
SumOf(q) == IF q = << >> THEN 0 ELSE Head(q) + SumOf(Tail(q))

\* the script ends in an error before any read of 0 bytes
ReadFails(reads) ==
    Len(ChunksRead(reads)) < Len(reads) /\ reads[Len(ChunksRead(reads)) + 1] = ReadErr

\* C24: compress of a compressor other than Unknown stops at the first read
\* of 0 bytes and returns the sum of the lengths of the chunks read until
\* then, which is the length of the source whatever the chunks; the hasher
\* and the codec got the bytes of the source once, in the order read, and no
\* byte behind the end; the sink holds what the codec makes of them; a read
\* that fails ends compress with the error.
C24_compress_reads_to_end ==
    probe.fn = "compress" =>
        LET reads == probe.arg.reads
            source == probe.arg.source
            res == probe.res
        IN  IF ReadFails(reads)
            THEN /\ ~ res.ok
                 /\ res.fed = SubSeq(source, 1, SumOf(ChunksRead(reads)))
            ELSE /\ res.ok
                 /\ res.total_read = SumOf(ChunksRead(reads))
                 /\ res.total_read = Len(source)
                 /\ res.fed = source
                 /\ res.hasher = Crc32(source)
                 /\ res.w.sink = CodecOutput(probe.arg.compressor, source)
                 /\ res.w.written_bytes_count = Len(res.w.sink)

C24_witness ==
    /\ probe.fn = "compress"
    /\ probe.arg.compressor = Unit("Zstd")
    /\ probe.arg.reads = << 2, 1, 0, 1 >>
    /\ probe.res.ok
    /\ probe.res.total_read = 3

\* the sum over the entries of 46 + the length of the name in bytes
RECURSIVE DirectoryLen(_)
DirectoryLen(infos) ==
    IF infos = << >> THEN 0
    ELSE CENTRAL_DIRECTORY_ENTRY_BASE_SIZE + Len(Head(infos).file_name_as_bytes)
         + DirectoryLen(Tail(infos))

\* C25 (as claimed): the central directory size that finalize computes is
\* the sum over the entries of 46 + name length, which is the number of bytes
\* written between the directory offset and the end record, and the u32
\* subtraction that computes it neither underflows nor wraps.
C25_directory_size_is_sum ==
    probe.fn = "central_directory_size" =>
          /\ probe.res.directory_bytes = DirectoryLen(probe.arg.infos)
          /\ ~ probe.res.size.underflow
          /\ ~ probe.res.size.panic
          /\ probe.res.size.value = Wide(DirectoryLen(probe.arg.infos))

\* the size field of the end records that the writers write, in archives
\* far below 2^32 bytes
C25_size_field_of_small_archives ==
    LastFinalizeOk =>
        /\ U32At(sink, EndRecordPos + 12) = DirectoryLen(files_info)
        /\ U32At(sink, EndRecordPos + 12) = EndRecordPos - last.at

\* the same without the claim that the subtraction does not underflow: the
\* value that a build without overflow checks computes is the sum
C25_wrapped_value_is_sum ==
    probe.fn = "central_directory_size" =>
        /\ probe.res.directory_bytes = DirectoryLen(probe.arg.infos)
        /\ probe.res.size.value = Wide(DirectoryLen(probe.arg.infos))
        /\ probe.res.size.underflow <=>
              (probe.arg.count.hi < U16_MOD /\
               WideAdd(probe.arg.count, DirectoryLen(probe.arg.infos)).hi >= U16_MOD)

\* where the central directory record of entry k begins in archive a
RecordIn(a, k) ==
    a.directory + DirectoryLen(SubSeq(a.files_info, 1, k - 1))

C27_level_of_the_options ==
    probe.fn = "level" =>
        LET f == probe.arg
            w == probe.res.w
            data == CodecOutputAt(f.compressor, f.compression_level, f.payload)
        IN  /\ probe.res.ok
            /\ Bytes(w.sink, HeaderLen(f), HeaderLen(f) + Len(data)) = data

\* the same for the streaming writer alone
C27_level_in_streaming_writer ==
    (probe.fn = "level" /\ probe.res.w.variant = "stream") =>
        LET f == probe.arg
            w == probe.res.w
            data == CodecOutputAt(f.compressor, f.compression_level, f.payload)
        IN  /\ probe.res.ok
            /\ Bytes(w.sink, HeaderLen(f), HeaderLen(f) + Len(data)) = data

\* the step is a call that appends an entry, whatever it returned
AppendStep ==
    /\ hist'.ops = hist.ops + 1
    /\ last'.op \in AppendOps

\* C28 (as claimed): no append shuts the underlying sink down, whatever the
\* compressor, and no call writes to a sink that has been shut down.
C28_append_keeps_sink_open ==
    [][ /\ AppendStep => sink_shutdown' = sink_shutdown
        /\ sink_shutdown => sink' = sink ]_vars

\* the same for the appends that do not run an encoder against the sink:
\* Store, DeflateFate2, and append_file_no_extend, which compresses into a
\* buffer of its own
C28_open_without_encoder_on_sink ==
    [][ (AppendStep /\ (~ ShutsWriterDown(last'.f.compressor)
                         \/ last'.op = "append_no_extend"))
            => sink_shutdown' = sink_shutdown ]_vars

\* C29 (as claimed): the name length field of a local header (at 26) and of
\* a central directory record (at 28) is the number of name bytes that follow
\* the fixed fields: the header is 30 + name_len bytes long and the record
\* 46 + name_len, for every name.
C29_name_length_field ==
    probe.fn = "name" =>
        /\ Len(probe.res.header) = FILE_HEADER_BASE_SIZE + U16At(probe.res.header, 26)
        /\ Len(probe.res.record)
              = CENTRAL_DIRECTORY_ENTRY_BASE_SIZE + U16At(probe.res.record, 28)

\* the same for names of fewer than 2^16 bytes
C29_names_below_65536 ==
    (probe.fn = "name" /\ probe.arg < U16_MOD) =>
        /\ U16At(probe.res.header, 26) = probe.arg
        /\ Len(probe.res.header) = FILE_HEADER_BASE_SIZE + probe.arg
        /\ U16At(probe.res.record, 28) = probe.arg
        /\ Len(probe.res.record) = CENTRAL_DIRECTORY_ENTRY_BASE_SIZE + probe.arg

\* the six method codes that have a variant of their own
KnownCodes == { STORE, DEFALTE, BZIP2, LZMA, ZSTD, XZ }

\* C30 (as claimed): from_compression_method(c).compression_method() = c for
\* every code c, the known codes giving their variants and the others
\* Unknown(c); and from_compression_method(x.compression_method()) = x for
\* every variant x except DeflateFate2, which gives Deflate.
C30_method_round_trip ==
    /\ probe.fn = "from_compression_method" =>
          /\ probe.res.method = probe.arg
          /\ probe.arg \notin KnownCodes => probe.res.compressor = Unknown(probe.arg)
          /\ probe.arg \in KnownCodes => ~ is_unknown(probe.res.compressor)
    /\ probe.fn = "compression_method" =>
          IF probe.arg = Unit("DeflateFate2")
          THEN probe.res.compressor = Unit("Deflate")
          ELSE probe.res.compressor = probe.arg

\* C30 (amended): the same, but the variants that do not come back are
\* DeflateFate2, which gives Deflate, and Unknown(c) for a known code c,
\* which gives the variant of c; every other variant comes back as itself.
C30_method_round_trip_amended ==
    /\ probe.fn = "from_compression_method" =>
          /\ probe.res.method = probe.arg
          /\ probe.arg \notin KnownCodes => probe.res.compressor = Unknown(probe.arg)
          /\ probe.arg = STORE => probe.res.compressor = Unit("Store")
          /\ probe.arg = DEFALTE => probe.res.compressor = Unit("Deflate")
          /\ probe.arg = BZIP2 => probe.res.compressor = Unit("BZip2")
          /\ probe.arg = LZMA => probe.res.compressor = Unit("Lzma")
          /\ probe.arg = ZSTD => probe.res.compressor = Unit("Zstd")
          /\ probe.arg = XZ => probe.res.compressor = Unit("Xz")
    /\ probe.fn = "compression_method" =>
          /\ compression_method(probe.res.compressor) = probe.res.method
          /\ CASE probe.arg = Unit("DeflateFate2") ->
                     probe.res.compressor = Unit("Deflate")
                [] is_unknown(probe.arg) /\ probe.arg.code \in KnownCodes ->
                     /\ ~ is_unknown(probe.res.compressor)
                     /\ probe.res.compressor # probe.arg
                [] OTHER -> probe.res.compressor = probe.arg

\* Unknown(DEFALTE) was encoded and decoded: it came back as Deflate
C30_witness ==
    /\ probe.fn = "compression_method"
    /\ probe.arg = Unknown(DEFALTE)
    /\ probe.res.method = DEFALTE
    /\ probe.res.compressor = Unit("Deflate")

====
